---- MODULE Spec2Model ----
(***************************************************************************)
(* A model of the ECMA object model and the interpreter driver of the      *)
(* engine: general objects' [[GetOwnProperty]], [[GetProperty]],           *)
(* [[CanPut]], [[Put]], [[Delete]], [[DefineOwnProperty]]                  *)
(* (ecma-objects-general.c), SameValue (ecma-conversion.c), the lexical    *)
(* environment operations (ecma-lex-env.c) and run_int / run_int_from_pos  *)
(* / run_int_loop (interpreter.c) with the opcode handlers they dispatch   *)
(* to (opcodes.c).                                                         *)
(***************************************************************************)
EXTENDS Integers, Sequences, FiniteSets, TLC

(***************************************************************************)
(* Bounds of the model.                                                    *)
(***************************************************************************)
\* number of distinct function objects available as getters and setters
NFun == 1

(***************************************************************************)
(* Values.  An ecma_value_t is a type tag and a payload.  The payload of   *)
(* an object value is the object's heap index, of a number it is a code of *)
(* the IEEE-754 double in the heap cell, of a simple value it is 0.        *)
(***************************************************************************)
NULL == 0

MkValue(type, payload) == [t |-> type, v |-> payload]

ECMA_SIMPLE_VALUE_UNDEFINED == MkValue("undefined", 0)
ECMA_SIMPLE_VALUE_NULL      == MkValue("null", 0)
ECMA_SIMPLE_VALUE_TRUE      == MkValue("boolean", 1)
ECMA_SIMPLE_VALUE_FALSE     == MkValue("boolean", 0)
ECMA_SIMPLE_VALUE_EMPTY     == MkValue("empty", 0)

\* The doubles of the model: +0, -0, two NaN bit patterns, 1 and -1.
NUM_PZERO == 0
NUM_NZERO == 1
NUM_NAN_A == 2
NUM_NAN_B == 3
NUM_ONE   == 4
NUM_MONE  == 5

NumberValue(n) == MkValue("number", n)
ObjectValue(o) == MkValue("object", o)

ecma_is_value_undefined(x) == x.t = "undefined"
ecma_is_value_null(x)      == x.t = "null"
ecma_is_value_boolean(x)   == x.t = "boolean"
ecma_is_value_number(x)    == x.t = "number"
ecma_is_value_string(x)    == x.t = "string"
ecma_is_value_object(x)    == x.t = "object"
ecma_is_value_empty(x)     == x.t = "empty"
ecma_is_value_true(x)      == x = ECMA_SIMPLE_VALUE_TRUE

ecma_number_is_nan(n)      == n \in {NUM_NAN_A, NUM_NAN_B}
ecma_number_is_zero(n)     == n \in {NUM_PZERO, NUM_NZERO}
ecma_number_is_negative(n) == n \in {NUM_NZERO, NUM_NAN_B, NUM_MONE}

\* the literals of the program, by literal index
Literals ==
  <<[type |-> "LIT_STR", str |-> "p"],
    [type |-> "LIT_STR", str |-> "q"],
    [type |-> "LIT_NUMBER", num |-> NUM_ONE],
    [type |-> "LIT_STR", str |-> "undefined"]>>

\* the uid of a literal in the block of an opcode is its index here
deserialize_lit_id_by_uid(uid, oc) == uid
deserialize_literal_by_id(lit_id) == Literals[lit_id + 1]
ecma_new_ecma_string_from_lit_index(lit_id) == Literals[lit_id + 1].str

\* the payload of a string value is the literal index of the string
StringValue(lit_id) == MkValue("string", lit_id)

\* the magic strings that typeof gives; the payload of the string value of
\* a magic string is its index here above MAGIC_STRING_BASE
ECMA_MAGIC_STRINGS == <<"undefined", "object", "boolean", "number", "string", "function">>
MAGIC_STRING_BASE == 100

ecma_get_magic_string(str) ==
  MkValue("string",
          MAGIC_STRING_BASE + CHOOSE i \in 1..Len(ECMA_MAGIC_STRINGS) : ECMA_MAGIC_STRINGS[i] = str)

\* the string of a string value
ecma_get_string_from_value(value) ==
  IF value.v > MAGIC_STRING_BASE
  THEN ECMA_MAGIC_STRINGS[value.v - MAGIC_STRING_BASE]
  ELSE ecma_new_ecma_string_from_lit_index(value.v)

\* whether two strings have the same characters, whatever holds them
ecma_compare_ecma_strings(string1_p, string2_p) == string1_p = string2_p

\* the C operator == on two doubles
ecma_number_equal(x, y) ==
  /\ ~ecma_number_is_nan(x)
  /\ ~ecma_number_is_nan(y)
  /\ (x = y \/ (ecma_number_is_zero(x) /\ ecma_number_is_zero(y)))

\* a plausible slip: numbers compared with the C operator == alone
ecma_op_same_value_by_equality(x, y) ==
  /\ x.t = y.t
  /\ IF ecma_is_value_number(x) THEN ecma_number_equal(x.v, y.v) ELSE x.v = y.v

\* a plausible slip: the two values are compared as they are stored
ecma_op_same_value_by_pointer(x, y) == x = y

\* SameValue
ecma_op_same_value(x, y) ==
  LET is_types_equal ==
        \/ (ecma_is_value_undefined(x) /\ ecma_is_value_undefined(y))
        \/ (ecma_is_value_null(x) /\ ecma_is_value_null(y))
        \/ (ecma_is_value_boolean(x) /\ ecma_is_value_boolean(y))
        \/ (ecma_is_value_number(x) /\ ecma_is_value_number(y))
        \/ (ecma_is_value_string(x) /\ ecma_is_value_string(y))
        \/ (ecma_is_value_object(x) /\ ecma_is_value_object(y))
  IN IF ~is_types_equal THEN FALSE
     ELSE IF ecma_is_value_undefined(x) \/ ecma_is_value_null(x) THEN TRUE
     ELSE IF ecma_is_value_number(x) THEN
            IF ecma_number_is_nan(x.v) /\ ecma_number_is_nan(y.v) THEN TRUE
            ELSE IF /\ ecma_number_is_zero(x.v)
                    /\ ecma_number_is_zero(y.v)
                    /\ ecma_number_is_negative(x.v) # ecma_number_is_negative(y.v)
                 THEN FALSE
            ELSE ecma_number_equal(x.v, y.v)
     ELSE IF ecma_is_value_string(x)
     THEN ecma_compare_ecma_strings(ecma_get_string_from_value(x),
                                    ecma_get_string_from_value(y))
     ELSE IF ecma_is_value_boolean(x) THEN ecma_is_value_true(x) = ecma_is_value_true(y)
     ELSE x.v = y.v

(***************************************************************************)
(* Completion values.                                                      *)
(***************************************************************************)
MkCompletion(type, value) == [type |-> type, value |-> value]

\* the error objects made by ecma_new_standard_error, one per error class
ECMA_ERROR_TYPE      == 90
ECMA_ERROR_REFERENCE == 91

ecma_make_simple_completion_value(simple) == MkCompletion("normal", simple)
ecma_make_normal_completion_value(value)  == MkCompletion("normal", value)
ecma_make_empty_completion_value          == MkCompletion("normal", ECMA_SIMPLE_VALUE_EMPTY)
ecma_make_throw_completion_value(value)   == MkCompletion("throw", value)
ecma_make_throw_obj_completion_value(obj) == MkCompletion("throw", ObjectValue(obj))
ecma_make_exit_completion_value(is_ok)    ==
  MkCompletion("exit", IF is_ok THEN ECMA_SIMPLE_VALUE_TRUE ELSE ECMA_SIMPLE_VALUE_FALSE)
ecma_make_return_completion_value(value)  == MkCompletion("return", value)
ecma_make_meta_completion_value           == MkCompletion("meta", ECMA_SIMPLE_VALUE_EMPTY)

ecma_is_completion_value_normal(c) == c.type = "normal"
ecma_is_completion_value_throw(c)  == c.type = "throw"
ecma_is_completion_value_exit(c)   == c.type = "exit"
ecma_is_completion_value_meta(c)   == c.type = "meta"
ecma_is_completion_value_return(c) == c.type = "return"
ecma_is_completion_value_empty(c)  ==
  c.type = "normal" /\ ecma_is_value_empty(c.value)

(***************************************************************************)
(* Properties and objects.  An object's property list is the sequence of   *)
(* its property nodes, head first.                                         *)
(***************************************************************************)
ECMA_PROPERTY_NAMEDDATA     == "NAMEDDATA"
ECMA_PROPERTY_NAMEDACCESSOR == "NAMEDACCESSOR"

NoProperty ==
  [name |-> "", type |-> "NULL", value |-> ECMA_SIMPLE_VALUE_UNDEFINED,
   writable |-> FALSE, enumerable |-> FALSE, configurable |-> FALSE,
   get_p |-> NULL, set_p |-> NULL]

MkDataProperty(name, value, w, e, c) ==
  [name |-> name, type |-> ECMA_PROPERTY_NAMEDDATA, value |-> value,
   writable |-> w, enumerable |-> e, configurable |-> c,
   get_p |-> NULL, set_p |-> NULL]

MkAccessorProperty(name, get_p, set_p, e, c) ==
  [name |-> name, type |-> ECMA_PROPERTY_NAMEDACCESSOR,
   value |-> ECMA_SIMPLE_VALUE_UNDEFINED,
   writable |-> FALSE, enumerable |-> e, configurable |-> c,
   get_p |-> get_p, set_p |-> set_p]

\* a general object
MkObject(prototype, extensible, props) ==
  [lexenv |-> "none", proto |-> prototype, extensible |-> extensible,
   binding |-> NULL, provide_this |-> FALSE, props |-> props, class |-> "Object"]

ecma_get_object_extensible(h, obj_p) == h[obj_p].extensible
ecma_get_object_prototype(h, obj_p)  == h[obj_p].proto

ecma_is_property_writable(prop)     == prop.writable
ecma_is_property_enumerable(prop)   == prop.enumerable
ecma_is_property_configurable(prop) == prop.configurable

\* index of the first node with the given name in the property list, 0 if none
ecma_find_named_property_index(h, obj_p, name) ==
  LET props == h[obj_p].props
      hits  == {i \in 1..Len(props) : props[i].name = name}
  IN IF hits = {} THEN 0
     ELSE CHOOSE i \in hits : \A j \in hits : i <= j

ecma_find_named_property(h, obj_p, name) ==
  LET i == ecma_find_named_property_index(h, obj_p, name)
  IN IF i = 0 THEN NoProperty ELSE h[obj_p].props[i]

\* the new node becomes the head of the list; its value is undefined
ecma_create_named_data_property(h, obj_p, name, w, e, c) ==
  [h EXCEPT ![obj_p].props =
     <<MkDataProperty(name, ECMA_SIMPLE_VALUE_UNDEFINED, w, e, c)>> \o @]

ecma_create_named_accessor_property(h, obj_p, name, get_p, set_p, e, c) ==
  [h EXCEPT ![obj_p].props = <<MkAccessorProperty(name, get_p, set_p, e, c)>> \o @]

\* unlink and free the node at index i
ecma_delete_property(h, obj_p, i) ==
  [h EXCEPT ![obj_p].props =
     SubSeq(@, 1, i - 1) \o SubSeq(@, i + 1, Len(@))]

\* write one field of the node at index i
SetPropertyField(h, obj_p, i, field, x) ==
  [h EXCEPT ![obj_p].props[i] = [@ EXCEPT ![field] = x]]

ecma_named_data_property_assign_value(h, obj_p, i, value) ==
  SetPropertyField(h, obj_p, i, "value", value)
ecma_set_named_data_property_value(h, obj_p, i, value) ==
  SetPropertyField(h, obj_p, i, "value", value)
ecma_set_property_writable_attr(h, obj_p, i, w) ==
  SetPropertyField(h, obj_p, i, "writable", w)
ecma_set_property_enumerable_attr(h, obj_p, i, e) ==
  SetPropertyField(h, obj_p, i, "enumerable", e)
ecma_set_property_configurable_attr(h, obj_p, i, c) ==
  SetPropertyField(h, obj_p, i, "configurable", c)

(***************************************************************************)
(* Property descriptors.                                                   *)
(***************************************************************************)
ecma_make_empty_property_descriptor ==
  [is_value_defined |-> FALSE, value |-> ECMA_SIMPLE_VALUE_UNDEFINED,
   is_writable_defined |-> FALSE, is_writable |-> FALSE,
   is_enumerable_defined |-> FALSE, is_enumerable |-> FALSE,
   is_configurable_defined |-> FALSE, is_configurable |-> FALSE,
   is_get_defined |-> FALSE, get_p |-> NULL,
   is_set_defined |-> FALSE, set_p |-> NULL]

(***************************************************************************)
(* The outcome of an operation: the heap it leaves, its completion value,  *)
(* the function calls it made and whether it ended the process.            *)
(* An operation is the set of its possible outcomes.                       *)
(***************************************************************************)
Outcome(h, r, c, f) == [heap |-> h, ret |-> r, calls |-> c, fatal |-> f]

\* JERRY_ASSERT failed: the process is ended by jerry_fatal
AssertFailed(h) == Outcome(h, ecma_make_empty_completion_value, <<>>, "assert")

ecma_reject_always_false(is_throw) ==
  ecma_make_simple_completion_value(ECMA_SIMPLE_VALUE_FALSE)

\* Reject sequence
ecma_reject(is_throw) ==
  IF is_throw
  THEN ecma_make_throw_obj_completion_value(ECMA_ERROR_TYPE)
  ELSE ecma_make_simple_completion_value(ECMA_SIMPLE_VALUE_FALSE)

(***************************************************************************)
(* Function objects are opaque: [[Call]] runs user code, which completes   *)
(* normally with some value, a number or the object it was called on, or   *)
(* throws some value.                                                      *)
(***************************************************************************)
Functions == 11..(10 + NFun)

ecma_op_function_call(func_obj_p, this_arg, args) ==
  {ecma_make_normal_completion_value(NumberValue(NUM_ONE)),
   ecma_make_throw_completion_value(NumberValue(NUM_MONE))}
    \cup IF ecma_is_value_object(this_arg)
         THEN {ecma_make_normal_completion_value(this_arg)}
         ELSE {}

MkCall(func_obj_p, this_arg, args, completion) ==
  [func |-> func_obj_p, this |-> this_arg, args |-> args, completion |-> completion]

\* IsCallable: the built-in function objects and the function objects made
\* of byte-code; the test for a constructor
ecma_op_is_callable(h, value) ==
  /\ ecma_is_value_object(value)
  /\ \/ value.v \in Functions
     \/ value.v \in DOMAIN h /\ h[value.v].lexenv = "none" /\ h[value.v].class = "Function"
ecma_is_constructor(value) == ecma_is_value_object(value) /\ value.v \in Functions

(***************************************************************************)
(* [[GetOwnProperty]], [[GetProperty]]                                     *)
(***************************************************************************)
ecma_op_general_object_get_own_property(h, obj_p, name) ==
  ecma_find_named_property(h, obj_p, name)

RECURSIVE ecma_op_general_object_get_property(_, _, _)
ecma_op_general_object_get_property(h, obj_p, name) ==
  LET prop_p      == ecma_op_general_object_get_own_property(h, obj_p, name)
      prototype_p == ecma_get_object_prototype(h, obj_p)
  IN IF prop_p # NoProperty THEN prop_p
     ELSE IF prototype_p # NULL
          THEN ecma_op_general_object_get_property(h, prototype_p, name)
          ELSE NoProperty

(***************************************************************************)
(* [[CanPut]]                                                              *)
(***************************************************************************)
\* a plausible slip: the inherited data property's writable flag alone
ecma_op_general_object_can_put_ignoring_extensible(h, obj_p, name) ==
  LET prop_p  == ecma_op_general_object_get_own_property(h, obj_p, name)
      proto_p == ecma_get_object_prototype(h, obj_p)
      inherited_p == IF proto_p = NULL THEN NoProperty
                     ELSE ecma_op_general_object_get_property(h, proto_p, name)
  IN IF prop_p # NoProperty THEN
       IF prop_p.type = ECMA_PROPERTY_NAMEDACCESSOR
       THEN prop_p.set_p # NULL
       ELSE ecma_is_property_writable(prop_p)
     ELSE IF proto_p = NULL THEN ecma_get_object_extensible(h, obj_p)
     ELSE IF inherited_p = NoProperty THEN ecma_get_object_extensible(h, obj_p)
     ELSE IF inherited_p.type = ECMA_PROPERTY_NAMEDACCESSOR
          THEN inherited_p.set_p # NULL
     ELSE ecma_is_property_writable(inherited_p)

ecma_op_general_object_can_put(h, obj_p, name) ==
  LET prop_p  == ecma_op_general_object_get_own_property(h, obj_p, name)
      proto_p == ecma_get_object_prototype(h, obj_p)
      inherited_p == IF proto_p = NULL THEN NoProperty
                     ELSE ecma_op_general_object_get_property(h, proto_p, name)
  IN IF prop_p # NoProperty THEN
       IF prop_p.type = ECMA_PROPERTY_NAMEDACCESSOR
       THEN prop_p.set_p # NULL
       ELSE ecma_is_property_writable(prop_p)
     ELSE IF proto_p = NULL THEN ecma_get_object_extensible(h, obj_p)
     ELSE IF inherited_p = NoProperty THEN ecma_get_object_extensible(h, obj_p)
     ELSE IF inherited_p.type = ECMA_PROPERTY_NAMEDACCESSOR
          THEN inherited_p.set_p # NULL
     ELSE IF ~ecma_get_object_extensible(h, obj_p) THEN FALSE
     ELSE ecma_is_property_writable(inherited_p)

(***************************************************************************)
(* [[Delete]]                                                              *)
(***************************************************************************)

\* a plausible slip: the configurable attribute is not consulted
ecma_op_general_object_delete_unchecked(h, obj_p, name, is_throw) ==
  LET i == ecma_find_named_property_index(h, obj_p, name)
  IN IF i = 0
     THEN {Outcome(h, ecma_make_simple_completion_value(ECMA_SIMPLE_VALUE_TRUE), <<>>, "none")}
     ELSE {Outcome(ecma_delete_property(h, obj_p, i),
                   ecma_make_simple_completion_value(ECMA_SIMPLE_VALUE_TRUE), <<>>, "none")}

ecma_op_general_object_delete(h, obj_p, name, is_throw) ==
  LET i      == ecma_find_named_property_index(h, obj_p, name)
      desc_p == ecma_op_general_object_get_own_property(h, obj_p, name)
  IN IF desc_p = NoProperty
     THEN {Outcome(h, ecma_make_simple_completion_value(ECMA_SIMPLE_VALUE_TRUE), <<>>, "none")}
     ELSE IF ecma_is_property_configurable(desc_p)
     THEN {Outcome(ecma_delete_property(h, obj_p, i),
                   ecma_make_simple_completion_value(ECMA_SIMPLE_VALUE_TRUE), <<>>, "none")}
     ELSE IF is_throw
     THEN {Outcome(h, ecma_make_throw_obj_completion_value(ECMA_ERROR_TYPE), <<>>, "none")}
     ELSE {Outcome(h, ecma_make_simple_completion_value(ECMA_SIMPLE_VALUE_FALSE), <<>>, "none")}

(***************************************************************************)
(* [[DefineOwnProperty]]                                                   *)
(***************************************************************************)
Done(h) == Outcome(h, ecma_make_simple_completion_value(ECMA_SIMPLE_VALUE_TRUE), <<>>, "none")
Rejected(h, is_throw) == Outcome(h, ecma_reject(is_throw), <<>>, "none")

\* a plausible slip: the enumerable attribute is written whether or not the
\* descriptor defines it
DefineOwnPropertyWriteFields_enumerable_always(h, obj_p, i, desc, is_current_data_descriptor, is_current_accessor_descriptor) ==
  LET h1 == IF desc.is_value_defined
            THEN ecma_named_data_property_assign_value(h, obj_p, i, desc.value)
            ELSE h
      h2 == IF desc.is_writable_defined
            THEN ecma_set_property_writable_attr(h1, obj_p, i, desc.is_writable)
            ELSE h1
      h3 == IF desc.is_get_defined
            THEN SetPropertyField(h2, obj_p, i, "get_p", desc.get_p)
            ELSE h2
      h4 == IF desc.is_set_defined
            THEN SetPropertyField(h3, obj_p, i, "set_p", desc.set_p)
            ELSE h3
      h5 == ecma_set_property_enumerable_attr(h4, obj_p, i, desc.is_enumerable)
      h6 == IF desc.is_configurable_defined
            THEN ecma_set_property_configurable_attr(h5, obj_p, i, desc.is_configurable)
            ELSE h5
  IN {Done(h6)}

\* Step 12: the fields of the descriptor are written to the node at index i.
\* is_current_data_descriptor and is_current_accessor_descriptor are the
\* flags computed at step 6, before any kind switch of step 9; each write
\* is preceded by a JERRY_ASSERT on them.  A build with assertions ends the
\* process at the first assertion that fails; a JERRY_NDEBUG build goes on.
\* (No caller passes a descriptor that has both data and accessor fields,
\* so no field has been written before the first failing assertion.)
DefineOwnPropertyWriteFields(h, obj_p, i, desc, is_current_data_descriptor, is_current_accessor_descriptor) ==
  LET assert_fails ==
        \/ (desc.is_value_defined \/ desc.is_writable_defined)
             /\ ~is_current_data_descriptor
        \/ (desc.is_get_defined \/ desc.is_set_defined)
             /\ ~is_current_accessor_descriptor
      h1 == IF desc.is_value_defined
            THEN ecma_named_data_property_assign_value(h, obj_p, i, desc.value)
            ELSE h
      h2 == IF desc.is_writable_defined
            THEN ecma_set_property_writable_attr(h1, obj_p, i, desc.is_writable)
            ELSE h1
      h3 == IF desc.is_get_defined
            THEN SetPropertyField(h2, obj_p, i, "get_p", desc.get_p)
            ELSE h2
      h4 == IF desc.is_set_defined
            THEN SetPropertyField(h3, obj_p, i, "set_p", desc.set_p)
            ELSE h3
      h5 == IF desc.is_enumerable_defined
            THEN ecma_set_property_enumerable_attr(h4, obj_p, i, desc.is_enumerable)
            ELSE h4
      h6 == IF desc.is_configurable_defined
            THEN ecma_set_property_configurable_attr(h5, obj_p, i, desc.is_configurable)
            ELSE h5
  IN IF assert_fails THEN {AssertFailed(h), Done(h6)} ELSE {Done(h6)}

\* Step 9.b, 9.c: the node is deleted, and the enumerable and configurable
\* attributes of the new node are then read from the deleted node: a read
\* of freed memory, which yields any pair of flags.
DefineOwnPropertySwitchKind(h, obj_p, name, i, is_current_data_descriptor) ==
  LET deleted == ecma_delete_property(h, obj_p, i)
  IN { IF is_current_data_descriptor
       THEN ecma_create_named_accessor_property(deleted, obj_p, name, NULL, NULL,
                                                dangling[1], dangling[2])
       ELSE ecma_create_named_data_property(deleted, obj_p, name, FALSE,
                                            dangling[1], dangling[2])
       : dangling \in BOOLEAN \X BOOLEAN }

\* Steps 3, 4: there is no own property of that name.
\* a plausible slip: the extensible flag is not consulted
DefineOwnPropertyAbsent_unchecked(h, obj_p, name, desc, is_throw) ==
  IF ~desc.is_get_defined /\ ~desc.is_set_defined
  THEN {Done(ecma_named_data_property_assign_value(
               ecma_create_named_data_property(h, obj_p, name, desc.is_writable,
                                               desc.is_enumerable, desc.is_configurable),
               obj_p, 1, desc.value))}
  ELSE {Done(ecma_create_named_accessor_property(h, obj_p, name, desc.get_p, desc.set_p,
                                                 desc.is_enumerable, desc.is_configurable))}

DefineOwnPropertyAbsent(h, obj_p, name, desc, is_throw) ==
  LET is_property_desc_generic_descriptor ==
        /\ ~desc.is_value_defined /\ ~desc.is_writable_defined
        /\ ~desc.is_get_defined /\ ~desc.is_set_defined
      is_property_desc_data_descriptor ==
        desc.is_value_defined \/ desc.is_writable_defined
  IN \* 3.
     IF ~ecma_get_object_extensible(h, obj_p) THEN {Rejected(h, is_throw)}
     \* 4.a
     ELSE IF is_property_desc_generic_descriptor \/ is_property_desc_data_descriptor
     THEN {Done(ecma_named_data_property_assign_value(
                  ecma_create_named_data_property(h, obj_p, name,
                                                  desc.is_writable,
                                                  desc.is_enumerable,
                                                  desc.is_configurable),
                  obj_p, 1, desc.value))}
     \* 4.b
     ELSE {Done(ecma_create_named_accessor_property(h, obj_p, name,
                                                    desc.get_p, desc.set_p,
                                                    desc.is_enumerable,
                                                    desc.is_configurable))}

\* Step 6: every field of the descriptor occurs in the property with the
\* same value
DefineOwnPropertySameFields(desc, current_p) ==
  LET is_current_data_descriptor     == current_p.type = ECMA_PROPERTY_NAMEDDATA
      is_current_accessor_descriptor == current_p.type = ECMA_PROPERTY_NAMEDACCESSOR
  IN /\ desc.is_value_defined =>
          /\ is_current_data_descriptor
          /\ ecma_op_same_value(desc.value, current_p.value)
     /\ desc.is_writable_defined =>
          /\ is_current_data_descriptor
          /\ desc.is_writable = ecma_is_property_writable(current_p)
     /\ desc.is_get_defined =>
          /\ is_current_accessor_descriptor
          /\ desc.get_p = current_p.get_p
     /\ desc.is_set_defined =>
          /\ is_current_accessor_descriptor
          /\ desc.set_p = current_p.set_p
     /\ desc.is_enumerable_defined =>
          desc.is_enumerable = ecma_is_property_enumerable(current_p)
     /\ desc.is_configurable_defined =>
          desc.is_configurable = ecma_is_property_configurable(current_p)

\* a plausible slip: the enumerable attribute is not compared
DefineOwnPropertyStep7Rejects_configurable_only(desc, current_p) ==
  /\ ~ecma_is_property_configurable(current_p)
  /\ desc.is_configurable

\* Step 7: the property is not configurable and the descriptor turns it
\* configurable or flips its enumerable attribute
DefineOwnPropertyStep7Rejects(desc, current_p) ==
  /\ ~ecma_is_property_configurable(current_p)
  /\ \/ desc.is_configurable
     \/ /\ desc.is_enumerable_defined
        /\ desc.is_enumerable # ecma_is_property_enumerable(current_p)

\* Step 10.a: a data descriptor on a data property that is neither
\* configurable nor writable
DefineOwnPropertyStep10Rejects(desc, current_p) ==
  /\ ~ecma_is_property_configurable(current_p)
  /\ ~ecma_is_property_writable(current_p)
  /\ \/ desc.is_writable
     \/ /\ desc.is_value_defined
        /\ ~ecma_op_same_value(desc.value, current_p.value)

\* Step 11.a: an accessor descriptor on an accessor property that is not
\* configurable
DefineOwnPropertyStep11Rejects(desc, current_p) ==
  /\ ~ecma_is_property_configurable(current_p)
  /\ \/ desc.is_get_defined /\ desc.get_p # current_p.get_p
     \/ desc.is_set_defined /\ desc.set_p # current_p.set_p

ecma_op_general_object_define_own_property(h, obj_p, name, desc, is_throw) ==
  LET is_property_desc_generic_descriptor ==
        /\ ~desc.is_value_defined /\ ~desc.is_writable_defined
        /\ ~desc.is_get_defined /\ ~desc.is_set_defined
      is_property_desc_data_descriptor ==
        desc.is_value_defined \/ desc.is_writable_defined
      is_property_desc_accessor_descriptor ==
        desc.is_get_defined \/ desc.is_set_defined
      \* 1.
      i         == ecma_find_named_property_index(h, obj_p, name)
      current_p == ecma_op_general_object_get_own_property(h, obj_p, name)
      \* 6.
      is_current_data_descriptor     == current_p.type = ECMA_PROPERTY_NAMEDDATA
      is_current_accessor_descriptor == current_p.type = ECMA_PROPERTY_NAMEDACCESSOR
  IN IF current_p = NoProperty
     THEN DefineOwnPropertyAbsent(h, obj_p, name, desc, is_throw)
     \* 5.
     ELSE IF /\ is_property_desc_generic_descriptor
             /\ ~desc.is_enumerable_defined
             /\ ~desc.is_configurable_defined
     THEN {Done(h)}
     \* 6.
     ELSE IF DefineOwnPropertySameFields(desc, current_p)
     THEN {Done(h)}
     \* 7.
     ELSE IF DefineOwnPropertyStep7Rejects(desc, current_p)
     THEN {Rejected(h, is_throw)}
     \* 8.
     ELSE IF is_property_desc_generic_descriptor
     THEN DefineOwnPropertyWriteFields(h, obj_p, i, desc,
                                       is_current_data_descriptor,
                                       is_current_accessor_descriptor)
     \* 9.
     ELSE IF is_property_desc_data_descriptor # is_current_data_descriptor
     THEN IF ~ecma_is_property_configurable(current_p)
          THEN {Rejected(h, is_throw)}
          ELSE UNION { DefineOwnPropertyWriteFields(switched, obj_p, 1, desc,
                                                    is_current_data_descriptor,
                                                    is_current_accessor_descriptor)
                       : switched \in DefineOwnPropertySwitchKind(
                                        h, obj_p, name, i, is_current_data_descriptor) }
     \* 10.
     ELSE IF is_property_desc_data_descriptor /\ is_current_data_descriptor
     THEN IF DefineOwnPropertyStep10Rejects(desc, current_p)
          THEN {Rejected(h, is_throw)}
          ELSE DefineOwnPropertyWriteFields(h, obj_p, i, desc,
                                            is_current_data_descriptor,
                                            is_current_accessor_descriptor)
     \* 11.
     ELSE IF ~(is_property_desc_accessor_descriptor /\ is_current_accessor_descriptor)
     THEN {AssertFailed(h)}
     ELSE IF DefineOwnPropertyStep11Rejects(desc, current_p)
     THEN {Rejected(h, is_throw)}
     ELSE DefineOwnPropertyWriteFields(h, obj_p, i, desc,
                                       is_current_data_descriptor,
                                       is_current_accessor_descriptor)

(***************************************************************************)
(* [[Put]]                                                                 *)
(***************************************************************************)
\* a plausible slip: the failure is silent in strict code too
PutCannotPut_silent(h, is_throw) ==
  Outcome(h, ecma_make_simple_completion_value(ECMA_SIMPLE_VALUE_FALSE), <<>>, "none")

\* Step 1.a, 1.b: [[CanPut]] is false
PutCannotPut(h, is_throw) ==
  IF is_throw
  THEN Outcome(h, ecma_make_throw_obj_completion_value(ECMA_ERROR_TYPE), <<>>, "none")
  ELSE Outcome(h, ecma_make_simple_completion_value(ECMA_SIMPLE_VALUE_FALSE), <<>>, "none")

\* a plausible slip: the new property is made with the value alone
ecma_op_general_object_put_value_only(h, obj_p, name, value, is_throw) ==
  LET own_desc_p == ecma_op_general_object_get_own_property(h, obj_p, name)
      desc_p     == ecma_op_general_object_get_property(h, obj_p, name)
      value_desc == [ecma_make_empty_property_descriptor EXCEPT
                       !.is_value_defined = TRUE, !.value = value]
  IN IF ~ecma_op_general_object_can_put(h, obj_p, name)
     THEN {PutCannotPut(h, is_throw)}
     ELSE IF own_desc_p # NoProperty /\ own_desc_p.type = ECMA_PROPERTY_NAMEDDATA
     THEN ecma_op_general_object_define_own_property(h, obj_p, name, value_desc, is_throw)
     ELSE IF desc_p # NoProperty /\ desc_p.type = ECMA_PROPERTY_NAMEDACCESSOR
     THEN IF desc_p.set_p = NULL
          THEN {AssertFailed(h)}
          ELSE { Outcome(h,
                         IF ecma_is_completion_value_throw(call_ret)
                         THEN call_ret
                         ELSE ecma_make_simple_completion_value(ECMA_SIMPLE_VALUE_TRUE),
                         <<MkCall(desc_p.set_p, ObjectValue(obj_p), <<value>>, call_ret)>>,
                         "none")
                 : call_ret \in ecma_op_function_call(desc_p.set_p,
                                                      ObjectValue(obj_p), <<value>>) }
     ELSE ecma_op_general_object_define_own_property(h, obj_p, name, value_desc, is_throw)

\* a plausible slip: the completion of the setter is dropped
ecma_op_general_object_put_dropping_throw(h, obj_p, name, value, is_throw) ==
  LET own_desc_p == ecma_op_general_object_get_own_property(h, obj_p, name)
      desc_p     == ecma_op_general_object_get_property(h, obj_p, name)
      value_desc == [ecma_make_empty_property_descriptor EXCEPT
                       !.is_value_defined = TRUE, !.value = value]
      new_desc   == [ecma_make_empty_property_descriptor EXCEPT
                       !.is_value_defined = TRUE, !.value = value,
                       !.is_writable_defined = TRUE, !.is_writable = TRUE,
                       !.is_enumerable_defined = TRUE, !.is_enumerable = TRUE,
                       !.is_configurable_defined = TRUE, !.is_configurable = TRUE]
  IN IF ~ecma_op_general_object_can_put(h, obj_p, name)
     THEN {PutCannotPut(h, is_throw)}
     ELSE IF own_desc_p # NoProperty /\ own_desc_p.type = ECMA_PROPERTY_NAMEDDATA
     THEN ecma_op_general_object_define_own_property(h, obj_p, name, value_desc, is_throw)
     ELSE IF desc_p # NoProperty /\ desc_p.type = ECMA_PROPERTY_NAMEDACCESSOR
     THEN IF desc_p.set_p = NULL
          THEN {AssertFailed(h)}
          ELSE { Outcome(h,
                         ecma_make_simple_completion_value(ECMA_SIMPLE_VALUE_TRUE),
                         <<MkCall(desc_p.set_p, ObjectValue(obj_p), <<value>>, call_ret)>>,
                         "none")
                 : call_ret \in ecma_op_function_call(desc_p.set_p,
                                                      ObjectValue(obj_p), <<value>>) }
     ELSE ecma_op_general_object_define_own_property(h, obj_p, name, new_desc, is_throw)

ecma_op_general_object_put(h, obj_p, name, value, is_throw) ==
  LET own_desc_p == ecma_op_general_object_get_own_property(h, obj_p, name)
      desc_p     == ecma_op_general_object_get_property(h, obj_p, name)
      value_desc == [ecma_make_empty_property_descriptor EXCEPT
                       !.is_value_defined = TRUE, !.value = value]
      new_desc   == [ecma_make_empty_property_descriptor EXCEPT
                       !.is_value_defined = TRUE, !.value = value,
                       !.is_writable_defined = TRUE, !.is_writable = TRUE,
                       !.is_enumerable_defined = TRUE, !.is_enumerable = TRUE,
                       !.is_configurable_defined = TRUE, !.is_configurable = TRUE]
  IN \* 1.
     IF ~ecma_op_general_object_can_put(h, obj_p, name)
     THEN {PutCannotPut(h, is_throw)}
     \* 3.
     ELSE IF own_desc_p # NoProperty /\ own_desc_p.type = ECMA_PROPERTY_NAMEDDATA
     THEN ecma_op_general_object_define_own_property(h, obj_p, name, value_desc, is_throw)
     \* 5.
     ELSE IF desc_p # NoProperty /\ desc_p.type = ECMA_PROPERTY_NAMEDACCESSOR
     THEN IF desc_p.set_p = NULL
          THEN {AssertFailed(h)}
          ELSE { Outcome(h,
                         IF ecma_is_completion_value_throw(call_ret)
                         THEN call_ret
                         ELSE ecma_make_simple_completion_value(ECMA_SIMPLE_VALUE_TRUE),
                         <<MkCall(desc_p.set_p, ObjectValue(obj_p), <<value>>, call_ret)>>,
                         "none")
                 : call_ret \in ecma_op_function_call(desc_p.set_p,
                                                      ObjectValue(obj_p), <<value>>) }
     \* 6.
     ELSE ecma_op_general_object_define_own_property(h, obj_p, name, new_desc, is_throw)

(***************************************************************************)
(* [[Get]]                                                                 *)
(***************************************************************************)
\* a plausible slip: only the own property is looked up
ecma_op_general_object_get_own_only(h, obj_p, name) ==
  LET prop_p == ecma_op_general_object_get_own_property(h, obj_p, name)
  IN IF prop_p = NoProperty
     THEN {Outcome(h, ecma_make_simple_completion_value(ECMA_SIMPLE_VALUE_UNDEFINED), <<>>, "none")}
     ELSE IF prop_p.type = ECMA_PROPERTY_NAMEDDATA
     THEN {Outcome(h, ecma_make_normal_completion_value(prop_p.value), <<>>, "none")}
     ELSE IF prop_p.get_p = NULL
     THEN {Outcome(h, ecma_make_simple_completion_value(ECMA_SIMPLE_VALUE_UNDEFINED), <<>>, "none")}
     ELSE { Outcome(h, call_ret, <<MkCall(prop_p.get_p, ObjectValue(obj_p), <<>>, call_ret)>>, "none")
            : call_ret \in ecma_op_function_call(prop_p.get_p, ObjectValue(obj_p), <<>>) }

ecma_op_general_object_get(h, obj_p, name) ==
  LET prop_p == ecma_op_general_object_get_property(h, obj_p, name)
  IN \* 2.
     IF prop_p = NoProperty
     THEN {Outcome(h, ecma_make_simple_completion_value(ECMA_SIMPLE_VALUE_UNDEFINED), <<>>, "none")}
     \* 3.
     ELSE IF prop_p.type = ECMA_PROPERTY_NAMEDDATA
     THEN {Outcome(h, ecma_make_normal_completion_value(prop_p.value), <<>>, "none")}
     \* 5.
     ELSE IF prop_p.get_p = NULL
     THEN {Outcome(h, ecma_make_simple_completion_value(ECMA_SIMPLE_VALUE_UNDEFINED), <<>>, "none")}
     ELSE { Outcome(h, call_ret, <<MkCall(prop_p.get_p, ObjectValue(obj_p), <<>>, call_ret)>>, "none")
            : call_ret \in ecma_op_function_call(prop_p.get_p, ObjectValue(obj_p), <<>>) }

(***************************************************************************)
(* Lexical environments.  A lexical environment is a heap cell as an       *)
(* object is; its outer reference is kept where an object keeps its        *)
(* prototype.  A declarative environment keeps its bindings in its own     *)
(* property list, an object-bound one in its binding object.               *)
(***************************************************************************)
ECMA_LEXICAL_ENVIRONMENT_DECLARATIVE == "declarative"
ECMA_LEXICAL_ENVIRONMENT_OBJECTBOUND == "objectbound"

ecma_is_lexical_environment(h, obj_p) == h[obj_p].lexenv # "none"
ecma_get_lex_env_type(h, lex_env_p) == h[lex_env_p].lexenv
ecma_get_lex_env_outer_reference(h, lex_env_p) == h[lex_env_p].proto
ecma_get_lex_env_binding_object(h, lex_env_p) == h[lex_env_p].binding

\* the new environment is the last cell of the heap
ecma_create_decl_lex_env(h, outer_lexical_environment_p) ==
  Append(h, [lexenv |-> ECMA_LEXICAL_ENVIRONMENT_DECLARATIVE,
             proto |-> outer_lexical_environment_p, extensible |-> FALSE,
             binding |-> NULL, provide_this |-> FALSE, props |-> <<>>])

ecma_create_object_lex_env(h, outer_lexical_environment_p, binding_obj_p, provide_this) ==
  Append(h, [lexenv |-> ECMA_LEXICAL_ENVIRONMENT_OBJECTBOUND,
             proto |-> outer_lexical_environment_p, extensible |-> FALSE,
             binding |-> binding_obj_p, provide_this |-> provide_this,
             props |-> <<>>])

\* HasBinding
ecma_op_has_binding(h, lex_env_p, name) ==
  IF ecma_get_lex_env_type(h, lex_env_p) = ECMA_LEXICAL_ENVIRONMENT_DECLARATIVE
  THEN ecma_find_named_property(h, lex_env_p, name) # NoProperty
  ELSE ecma_op_general_object_get_property(
         h, ecma_get_lex_env_binding_object(h, lex_env_p), name) # NoProperty

\* CreateMutableBinding
ecma_op_create_mutable_binding(h, lex_env_p, name, is_deletable) ==
  IF ecma_get_lex_env_type(h, lex_env_p) = ECMA_LEXICAL_ENVIRONMENT_DECLARATIVE
  THEN {Outcome(ecma_create_named_data_property(h, lex_env_p, name, TRUE, FALSE, is_deletable),
                ecma_make_empty_completion_value, <<>>, "none")}
  ELSE LET binding_obj_p == ecma_get_lex_env_binding_object(h, lex_env_p)
           prop_desc == [ecma_make_empty_property_descriptor EXCEPT
                           !.is_value_defined = TRUE,
                           !.value = ECMA_SIMPLE_VALUE_UNDEFINED,
                           !.is_writable_defined = TRUE,
                           !.is_writable = TRUE,
                           !.is_enumerable_defined = TRUE,
                           !.is_enumerable = TRUE,
                           !.is_configurable_defined = TRUE,
                           !.is_configurable = is_deletable]
       IN { IF o.fatal # "none" \/ ecma_is_completion_value_throw(o.ret)
            THEN o
            ELSE Outcome(o.heap, ecma_make_empty_completion_value, <<>>, "none")
            : o \in ecma_op_general_object_define_own_property(
                      h, binding_obj_p, name, prop_desc, TRUE) }

\* GetBindingValue
\* a plausible slip: the value of the binding is copied without the test for
\* an immutable binding that is not initialised yet
ecma_op_get_binding_value_unchecked(h, lex_env_p, name, is_strict) ==
  IF ecma_get_lex_env_type(h, lex_env_p) = ECMA_LEXICAL_ENVIRONMENT_DECLARATIVE
  THEN {Outcome(h, ecma_make_normal_completion_value(
                     ecma_find_named_property(h, lex_env_p, name).value), <<>>, "none")}
  ELSE ecma_op_general_object_get(h, ecma_get_lex_env_binding_object(h, lex_env_p), name)

ecma_op_get_binding_value(h, lex_env_p, name, is_strict) ==
  IF ecma_get_lex_env_type(h, lex_env_p) = ECMA_LEXICAL_ENVIRONMENT_DECLARATIVE
  THEN LET property_p == ecma_find_named_property(h, lex_env_p, name)
       IN IF ~ecma_is_property_writable(property_p) /\ ecma_is_value_empty(property_p.value)
          THEN IF is_strict
               THEN {Outcome(h, ecma_make_throw_obj_completion_value(ECMA_ERROR_REFERENCE),
                             <<>>, "none")}
               ELSE {Outcome(h, ecma_make_simple_completion_value(ECMA_SIMPLE_VALUE_UNDEFINED),
                             <<>>, "none")}
          ELSE {Outcome(h, ecma_make_normal_completion_value(property_p.value), <<>>, "none")}
  ELSE LET binding_obj_p == ecma_get_lex_env_binding_object(h, lex_env_p)
       IN IF ecma_op_general_object_get_property(h, binding_obj_p, name) = NoProperty
          THEN IF is_strict
               THEN {Outcome(h, ecma_make_throw_obj_completion_value(ECMA_ERROR_REFERENCE),
                             <<>>, "none")}
               ELSE {Outcome(h, ecma_make_simple_completion_value(ECMA_SIMPLE_VALUE_UNDEFINED),
                             <<>>, "none")}
          ELSE ecma_op_general_object_get(h, binding_obj_p, name)

\* a plausible slip: the binding is assigned whether it is writable or not
ecma_op_set_mutable_binding_unchecked(h, lex_env_p, name, value, is_strict) ==
  IF ecma_get_lex_env_type(h, lex_env_p) = ECMA_LEXICAL_ENVIRONMENT_DECLARATIVE
  THEN LET i == ecma_find_named_property_index(h, lex_env_p, name)
       IN {Outcome(ecma_named_data_property_assign_value(h, lex_env_p, i, value),
                   ecma_make_empty_completion_value, <<>>, "none")}
  ELSE { IF o.fatal # "none" \/ ecma_is_completion_value_throw(o.ret)
         THEN o
         ELSE Outcome(o.heap, ecma_make_empty_completion_value, o.calls, "none")
         : o \in ecma_op_general_object_put(
                   h, ecma_get_lex_env_binding_object(h, lex_env_p), name, value, is_strict) }

\* SetMutableBinding
ecma_op_set_mutable_binding(h, lex_env_p, name, value, is_strict) ==
  IF ecma_get_lex_env_type(h, lex_env_p) = ECMA_LEXICAL_ENVIRONMENT_DECLARATIVE
  THEN LET i == ecma_find_named_property_index(h, lex_env_p, name)
           property_p == h[lex_env_p].props[i]
       IN IF ecma_is_property_writable(property_p)
          THEN {Outcome(ecma_named_data_property_assign_value(h, lex_env_p, i, value),
                        ecma_make_empty_completion_value, <<>>, "none")}
          ELSE IF is_strict
          THEN {Outcome(h, ecma_make_throw_obj_completion_value(ECMA_ERROR_TYPE),
                        <<>>, "none")}
          ELSE {Outcome(h, ecma_make_empty_completion_value, <<>>, "none")}
  ELSE LET binding_obj_p == ecma_get_lex_env_binding_object(h, lex_env_p)
       IN { IF completion.fatal # "none" \/ ecma_is_completion_value_throw(completion.ret)
            THEN completion
            ELSE Outcome(completion.heap, ecma_make_empty_completion_value,
                         completion.calls,
                         IF completion.ret \in
                              {ecma_make_simple_completion_value(ECMA_SIMPLE_VALUE_TRUE),
                               ecma_make_simple_completion_value(ECMA_SIMPLE_VALUE_FALSE)}
                         THEN "none" ELSE "assert")
            : completion \in
                ecma_op_general_object_put(h, binding_obj_p, name, value, is_strict) }

\* a plausible slip: true is returned for a configurable binding and the
\* binding is not removed
ecma_op_delete_binding_kept(h, lex_env_p, name) ==
  IF ecma_get_lex_env_type(h, lex_env_p) = ECMA_LEXICAL_ENVIRONMENT_DECLARATIVE
  THEN LET i == ecma_find_named_property_index(h, lex_env_p, name)
       IN IF i = 0 \/ ecma_is_property_configurable(h[lex_env_p].props[i])
          THEN {Outcome(h, ecma_make_simple_completion_value(ECMA_SIMPLE_VALUE_TRUE),
                        <<>>, "none")}
          ELSE {Outcome(h, ecma_make_simple_completion_value(ECMA_SIMPLE_VALUE_FALSE),
                        <<>>, "none")}
  ELSE ecma_op_general_object_delete(
         h, ecma_get_lex_env_binding_object(h, lex_env_p), name, FALSE)

\* DeleteBinding
ecma_op_delete_binding(h, lex_env_p, name) ==
  IF ecma_get_lex_env_type(h, lex_env_p) = ECMA_LEXICAL_ENVIRONMENT_DECLARATIVE
  THEN LET i == ecma_find_named_property_index(h, lex_env_p, name)
       IN IF i = 0
          THEN {Outcome(h, ecma_make_simple_completion_value(ECMA_SIMPLE_VALUE_TRUE),
                        <<>>, "none")}
          ELSE IF ~ecma_is_property_configurable(h[lex_env_p].props[i])
          THEN {Outcome(h, ecma_make_simple_completion_value(ECMA_SIMPLE_VALUE_FALSE),
                        <<>>, "none")}
          ELSE {Outcome(ecma_delete_property(h, lex_env_p, i),
                        ecma_make_simple_completion_value(ECMA_SIMPLE_VALUE_TRUE),
                        <<>>, "none")}
  ELSE ecma_op_general_object_delete(
         h, ecma_get_lex_env_binding_object(h, lex_env_p), name, FALSE)

\* a plausible slip: the binding is made as CreateMutableBinding makes a
\* deletable one
ecma_op_create_immutable_binding_configurable(h, lex_env_p, name) ==
  ecma_set_named_data_property_value(
    ecma_create_named_data_property(h, lex_env_p, name, FALSE, FALSE, TRUE),
    lex_env_p, 1, ECMA_SIMPLE_VALUE_EMPTY)

\* CreateImmutableBinding: the new node is the head of the list
ecma_op_create_immutable_binding(h, lex_env_p, name) ==
  ecma_set_named_data_property_value(
    ecma_create_named_data_property(h, lex_env_p, name, FALSE, FALSE, FALSE),
    lex_env_p, 1, ECMA_SIMPLE_VALUE_EMPTY)

\* InitializeImmutableBinding
ecma_op_initialize_immutable_binding(h, lex_env_p, name, value) ==
  LET i == ecma_find_named_property_index(h, lex_env_p, name)
      prop_p == h[lex_env_p].props[i]
      assigned == ecma_named_data_property_assign_value(h, lex_env_p, i, value)
  IN IF ~ecma_is_property_writable(prop_p) /\ ecma_is_value_empty(prop_p.value)
     THEN {Outcome(assigned, ecma_make_empty_completion_value, <<>>, "none")}
     ELSE {AssertFailed(h),
           Outcome(assigned, ecma_make_empty_completion_value, <<>>, "none")}

\* the Global Environment; the build chooses its kind
ecma_op_create_global_environment(h, glob_obj_p, config_declarative) ==
  IF config_declarative
  THEN ecma_create_decl_lex_env(h, NULL)
  ELSE ecma_create_object_lex_env(h, NULL, glob_obj_p, FALSE)

(***************************************************************************)
(* Byte-code.  An opcode is its op_idx and the fields of its data.  An idx *)
(* operand is a register of the frame when it lies in the frame's register *)
(* window and the uid of a literal otherwise.                              *)
(***************************************************************************)

\* the number of a small integer operand
ecma_uint32_to_number(n) == IF n = 0 THEN NUM_PZERO ELSE NUM_ONE

ecma_number_negate(n) ==
  CASE n = NUM_PZERO -> NUM_NZERO
    [] n = NUM_NZERO -> NUM_PZERO
    [] n = NUM_ONE   -> NUM_MONE
    [] n = NUM_MONE  -> NUM_ONE
    [] OTHER         -> n

\* the simple value an assignment of a simple value names
SimpleValue(simple) ==
  CASE simple = "ECMA_SIMPLE_VALUE_UNDEFINED" -> ECMA_SIMPLE_VALUE_UNDEFINED
    [] simple = "ECMA_SIMPLE_VALUE_NULL"      -> ECMA_SIMPLE_VALUE_NULL
    [] simple = "ECMA_SIMPLE_VALUE_TRUE"      -> ECMA_SIMPLE_VALUE_TRUE
    [] simple = "ECMA_SIMPLE_VALUE_FALSE"     -> ECMA_SIMPLE_VALUE_FALSE

(***************************************************************************)
(* The interpreter context of a frame.  loops holds, innermost last, the   *)
(* locals of the handlers of the frame that are waiting in a nested        *)
(* run_int_loop on this context.                                           *)
(***************************************************************************)
MkIntData(pos, this_binding, lex_env_p, is_strict, is_eval_code, min_reg_num, max_reg_num) ==
  [pos |-> pos, this_binding |-> this_binding, lex_env_p |-> lex_env_p,
   is_strict |-> is_strict, is_eval_code |-> is_eval_code,
   min_reg_num |-> min_reg_num, max_reg_num |-> max_reg_num,
   regs |-> [i \in 1..(max_reg_num - min_reg_num + 1) |-> ECMA_SIMPLE_VALUE_UNDEFINED],
   loops |-> <<>>]

\* the outcome of an opcode handler: the heap and the context it leaves and
\* its completion value
IntOutcome(h, int_data, r, f) ==
  [heap |-> h, int_data |-> int_data, ret |-> r, fatal |-> f]

\* the outcome of a handler that made calls of function objects
IntCallOutcome(h, int_data, r, f, c) ==
  [heap |-> h, int_data |-> int_data, ret |-> r, fatal |-> f, calls |-> c]

\* JERRY_ASSERT failed, or JERRY_UNREACHABLE was reached
IntFatal(h, int_data, why) ==
  IntOutcome(h, int_data, ecma_make_empty_completion_value, why)

\* the value of a register
get_variable_value(int_data, var_idx) ==
  ecma_make_normal_completion_value(int_data.regs[var_idx - int_data.min_reg_num + 1])

\* the context after the write of a register; the completion is empty
set_variable_value(int_data, var_idx, value) ==
  [int_data EXCEPT !.regs[var_idx - int_data.min_reg_num + 1] = value]

\* GetIdentifierReference: the environment of the chain that binds the
\* name, NULL when the name is unresolvable
RECURSIVE ecma_op_get_identifier_reference(_, _, _, _)
ecma_op_get_identifier_reference(h, lex_env_p, name, is_strict) ==
  IF lex_env_p = NULL
  THEN [base |-> NULL, referenced_name |-> name, is_strict |-> is_strict]
  ELSE IF ecma_op_has_binding(h, lex_env_p, name)
       THEN [base |-> lex_env_p, referenced_name |-> name, is_strict |-> is_strict]
       ELSE ecma_op_get_identifier_reference(
              h, ecma_get_lex_env_outer_reference(h, lex_env_p), name, is_strict)

(***************************************************************************)
(* Conversion routines.                                                    *)
(***************************************************************************)
\* CheckObjectCoercible
ecma_op_check_object_coercible(value) ==
  IF ecma_is_value_undefined(value) \/ ecma_is_value_null(value)
  THEN ecma_make_throw_obj_completion_value(ECMA_ERROR_TYPE)
  ELSE ecma_make_empty_completion_value

\* the string of a number
ecma_new_ecma_string_from_number(num) ==
  CASE num = NUM_PZERO \/ num = NUM_NZERO -> "0"
    [] num = NUM_NAN_A \/ num = NUM_NAN_B -> "NaN"
    [] num = NUM_ONE -> "1"
    [] OTHER -> "-1"

\* the completion of a sequence of two operations: what the second made of
\* the heap, after the calls of both
Then(first, second) ==
  Outcome(second.heap, second.ret, first.calls \o second.calls, second.fatal)

ECMA_PREFERRED_TYPE_NO     == "no"
ECMA_PREFERRED_TYPE_NUMBER == "number"
ECMA_PREFERRED_TYPE_STRING == "string"

\* a plausible slip: valueOf is tried first whatever the hint is
DefaultValueMethod_value_of_first(i, hint) ==
  IF i = 2 THEN "toString" ELSE "valueOf"

\* the method [[DefaultValue]] tries in turn i of its loop
DefaultValueMethod(i, hint) ==
  IF (i = 1 /\ hint = ECMA_PREFERRED_TYPE_STRING)
     \/ (i = 2 /\ hint = ECMA_PREFERRED_TYPE_NUMBER)
  THEN "toString" ELSE "valueOf"

\* turns i..2 of the loop of [[DefaultValue]]; a completion declared and not
\* assigned is empty
RECURSIVE DefaultValueLoop(_, _, _, _)
DefaultValueLoop(h, obj_p, hint, i) ==
  IF i > 2
  THEN {Outcome(h, ecma_make_throw_obj_completion_value(ECMA_ERROR_TYPE), <<>>, "none")}
  ELSE UNION {
    IF function_value_get.fatal # "none"
       \/ ~ecma_is_completion_value_normal(function_value_get.ret)
    THEN {function_value_get}
    ELSE LET rest == { Then(function_value_get, o)
                       : o \in DefaultValueLoop(function_value_get.heap, obj_p, hint, i + 1) }
         IN IF ecma_op_is_callable(function_value_get.heap, function_value_get.ret.value)
            THEN UNION {
                   LET call == Outcome(function_value_get.heap, call_completion,
                                       function_value_get.calls
                                         \o <<MkCall(function_value_get.ret.value.v,
                                                     ObjectValue(obj_p), <<>>,
                                                     call_completion)>>, "none")
                   IN IF ~ecma_is_completion_value_normal(call_completion)
                      THEN {call}
                      ELSE IF ~ecma_is_completion_value_empty(call_completion)
                              /\ ~ecma_is_value_object(call_completion.value)
                      THEN {call}
                      ELSE { Then(call, o)
                             : o \in DefaultValueLoop(call.heap, obj_p, hint, i + 1) }
                   : call_completion \in
                       ecma_op_function_call(function_value_get.ret.value.v,
                                             ObjectValue(obj_p), <<>>) }
            ELSE rest
    : function_value_get \in
        ecma_op_general_object_get(h, obj_p, DefaultValueMethod(i, hint)) }

\* [[DefaultValue]]
ecma_op_general_object_default_value(h, obj_p, hint) ==
  DefaultValueLoop(h, obj_p,
                   IF hint = ECMA_PREFERRED_TYPE_NO
                   THEN IF h[obj_p].class = "Date"
                        THEN ECMA_PREFERRED_TYPE_STRING
                        ELSE ECMA_PREFERRED_TYPE_NUMBER
                   ELSE hint,
                   1)

\* [[DefaultValue]] of any object is that of a general object
ecma_op_object_default_value(h, obj_p, hint) ==
  ecma_op_general_object_default_value(h, obj_p, hint)

\* ToPrimitive
ecma_op_to_primitive(h, value, preferred_type) ==
  IF ecma_is_value_object(value)
  THEN ecma_op_object_default_value(h, value.v, preferred_type)
  ELSE {Outcome(h, ecma_make_normal_completion_value(value), <<>>, "none")}

\* ToString; the value of the completion is the string itself
RECURSIVE ecma_op_to_string(_, _)
ecma_op_to_string(h, value) ==
  IF ecma_is_value_object(value)
  THEN UNION { IF prim_value.fatal # "none" \/ ecma_is_completion_value_throw(prim_value.ret)
               THEN {prim_value}
               ELSE { Then(prim_value, o)
                      : o \in ecma_op_to_string(prim_value.heap, prim_value.ret.value) }
               : prim_value \in ecma_op_to_primitive(h, value, ECMA_PREFERRED_TYPE_STRING) }
  ELSE {Outcome(h, ecma_make_normal_completion_value(
                     IF ecma_is_value_string(value)
                     THEN ecma_get_string_from_value(value)
                     ELSE IF ecma_is_value_number(value)
                     THEN ecma_new_ecma_string_from_number(value.v)
                     ELSE IF ecma_is_value_undefined(value) THEN "undefined"
                     ELSE IF ecma_is_value_null(value) THEN "null"
                     ELSE IF ecma_is_value_true(value) THEN "true"
                     ELSE "false"), <<>>, "none")}

\* the number a string denotes: the strings of the literals denote none
ecma_string_to_number(str) == NUM_NAN_A

\* ToNumber
RECURSIVE ecma_op_to_number(_, _)
ecma_op_to_number(h, value) ==
  IF ecma_is_value_number(value)
  THEN {Outcome(h, ecma_make_normal_completion_value(value), <<>>, "none")}
  ELSE IF ecma_is_value_string(value)
  THEN {Outcome(h, ecma_make_normal_completion_value(
                     NumberValue(ecma_string_to_number(ecma_get_string_from_value(value)))),
                <<>>, "none")}
  ELSE IF ecma_is_value_object(value)
  THEN UNION { IF primitive_value.fatal # "none"
                  \/ ecma_is_completion_value_throw(primitive_value.ret)
               THEN {primitive_value}
               ELSE { Then(primitive_value, o)
                      : o \in ecma_op_to_number(primitive_value.heap,
                                                primitive_value.ret.value) }
               : primitive_value \in
                   ecma_op_to_primitive(h, value, ECMA_PREFERRED_TYPE_NUMBER) }
  ELSE {Outcome(h, ecma_make_normal_completion_value(
                     NumberValue(IF ecma_is_value_undefined(value) THEN NUM_NAN_A
                                 ELSE IF ecma_is_value_null(value) THEN NUM_PZERO
                                 ELSE IF ecma_is_value_true(value) THEN NUM_ONE
                                 ELSE NUM_PZERO)),
                <<>>, "none")}

\* the real number of a double that is not a NaN
ecma_number_real(n) ==
  CASE n = NUM_ONE -> 1
    [] n = NUM_MONE -> -1
    [] OTHER -> 0

\* the C operator < on two doubles
ecma_number_less(x, y) ==
  /\ ~ecma_number_is_nan(x)
  /\ ~ecma_number_is_nan(y)
  /\ ecma_number_real(x) < ecma_number_real(y)

\* the strings of the literals and the magic strings, in the order of
\* their code units
StringOrder == <<"boolean", "function", "number", "object", "p", "q", "string", "undefined">>

\* whether the first string is before the second in that order
ecma_compare_ecma_strings_relational(str1, str2) ==
  \E i \in 1..Len(StringOrder), j \in 1..Len(StringOrder) :
    i < j /\ StringOrder[i] = str1 /\ StringOrder[j] = str2

\* the comparison of two primitive values: true, false or undefined
RelationalComparePrimitives(h, px, py) ==
  IF ecma_is_value_string(px) /\ ecma_is_value_string(py)
  THEN {Outcome(h, ecma_make_simple_completion_value(
                     IF ecma_compare_ecma_strings_relational(
                          ecma_get_string_from_value(px), ecma_get_string_from_value(py))
                     THEN ECMA_SIMPLE_VALUE_TRUE ELSE ECMA_SIMPLE_VALUE_FALSE),
                <<>>, "none")}
  ELSE UNION { UNION { {Outcome(ny.heap, ecma_make_simple_completion_value(
                                  IF ecma_number_is_nan(nx.ret.value.v)
                                     \/ ecma_number_is_nan(ny.ret.value.v)
                                  THEN ECMA_SIMPLE_VALUE_UNDEFINED
                                  ELSE IF ecma_number_less(nx.ret.value.v, ny.ret.value.v)
                                  THEN ECMA_SIMPLE_VALUE_TRUE
                                  ELSE ECMA_SIMPLE_VALUE_FALSE),
                                nx.calls \o ny.calls, "none")}
                       : ny \in ecma_op_to_number(nx.heap, py) }
               : nx \in ecma_op_to_number(h, px) }

\* the abstract relational comparison x < y; ToPrimitive with hint Number
\* is applied to x first when left_first, else to y first
ecma_op_abstract_relational_compare(h, x, y, left_first) ==
  LET first == IF left_first THEN x ELSE y
      second == IF left_first THEN y ELSE x
  IN UNION {
       IF p1.fatal # "none" \/ ecma_is_completion_value_throw(p1.ret)
       THEN {p1}
       ELSE UNION {
              IF p2.fatal # "none" \/ ecma_is_completion_value_throw(p2.ret)
              THEN {Then(p1, p2)}
              ELSE { Then(Then(p1, p2), o)
                     : o \in RelationalComparePrimitives(
                               p2.heap,
                               IF left_first THEN p1.ret.value ELSE p2.ret.value,
                               IF left_first THEN p2.ret.value ELSE p1.ret.value) }
              : p2 \in ecma_op_to_primitive(p1.heap, second, ECMA_PREFERRED_TYPE_NUMBER) }
       : p1 \in ecma_op_to_primitive(h, first, ECMA_PREFERRED_TYPE_NUMBER) }

\* the Number, String or Boolean object of a primitive value: a new object
\* at the end of the heap
ecma_op_create_primitive_object(h, value) ==
  Outcome(Append(h, MkObject(2, TRUE, <<>>)),
          ecma_make_normal_completion_value(ObjectValue(Len(h) + 1)), <<>>, "none")

\* ToObject
ecma_op_to_object(h, value) ==
  IF ecma_is_value_number(value) \/ ecma_is_value_string(value)
  THEN ecma_op_create_primitive_object(h, value)
  ELSE IF ecma_is_value_object(value)
  THEN Outcome(h, ecma_make_normal_completion_value(value), <<>>, "none")
  ELSE IF ecma_is_value_undefined(value) \/ ecma_is_value_null(value)
  THEN Outcome(h, ecma_make_throw_obj_completion_value(ECMA_ERROR_TYPE), <<>>, "none")
  ELSE ecma_op_create_primitive_object(h, value)

\* PutValue for a reference whose base is a value: [[Put]] on an object;
\* on a primitive value, whose temporary object has no accessor to inherit
\* in these heaps, the rejection.  The completion is empty unless thrown.
ecma_op_put_value_object_base(h, base, referenced_name, is_strict, value) ==
  IF ecma_is_value_object(base)
  THEN { IF o.fatal # "none" \/ ecma_is_completion_value_throw(o.ret)
         THEN o
         ELSE Outcome(o.heap, ecma_make_empty_completion_value, o.calls, "none")
         : o \in ecma_op_general_object_put(h, base.v, referenced_name, value, is_strict) }
  ELSE IF is_strict
  THEN {Outcome(h, ecma_make_throw_obj_completion_value(ECMA_ERROR_TYPE), <<>>, "none")}
  ELSE {Outcome(h, ecma_make_empty_completion_value, <<>>, "none")}

(***************************************************************************)
(* Opcode handlers.                                                        *)
(***************************************************************************)
opfunc_nop(h, opdata, int_data) ==
  {IntOutcome(h, [int_data EXCEPT !.pos = @ + 1], ecma_make_empty_completion_value, "none")}

opfunc_assignment(h, opdata, int_data) ==
  LET dst_var_idx == opdata.var_left
      type_value_right == opdata.type_value_right
      src_val_descr == opdata.value_right
      value ==
        CASE type_value_right = "OPCODE_ARG_TYPE_SIMPLE" -> SimpleValue(src_val_descr)
          [] type_value_right = "OPCODE_ARG_TYPE_STRING" ->
               StringValue(deserialize_lit_id_by_uid(src_val_descr, int_data.pos))
          [] type_value_right = "OPCODE_ARG_TYPE_VARIABLE" ->
               get_variable_value(int_data, src_val_descr).value
          [] type_value_right = "OPCODE_ARG_TYPE_NUMBER" ->
               NumberValue(deserialize_literal_by_id(
                             deserialize_lit_id_by_uid(src_val_descr, int_data.pos)).num)
          [] type_value_right = "OPCODE_ARG_TYPE_NUMBER_NEGATE" ->
               NumberValue(ecma_number_negate(
                             deserialize_literal_by_id(
                               deserialize_lit_id_by_uid(src_val_descr, int_data.pos)).num))
          [] type_value_right = "OPCODE_ARG_TYPE_SMALLINT" ->
               NumberValue(ecma_uint32_to_number(src_val_descr))
          [] OTHER ->
               NumberValue(ecma_number_negate(ecma_uint32_to_number(src_val_descr)))
      written == set_variable_value(int_data, dst_var_idx, value)
  IN {IntOutcome(h, [written EXCEPT !.pos = @ + 1], ecma_make_empty_completion_value, "none")}

\* a plausible slip: the binding is made without the look for one
opfunc_var_decl_unguarded(h, opdata, int_data) ==
  LET var_name_string_p == ecma_new_ecma_string_from_lit_index(
                             deserialize_lit_id_by_uid(opdata.variable_name, int_data.pos))
  IN { IntOutcome(o.heap, [int_data EXCEPT !.pos = @ + 1],
                  ecma_make_empty_completion_value, o.fatal)
       : o \in ecma_op_create_mutable_binding(h, int_data.lex_env_p, var_name_string_p,
                                              int_data.is_eval_code) }

opfunc_var_decl(h, opdata, int_data) ==
  LET var_name_string_p == ecma_new_ecma_string_from_lit_index(
                             deserialize_lit_id_by_uid(opdata.variable_name, int_data.pos))
      done(h2) == IntOutcome(h2, [int_data EXCEPT !.pos = @ + 1],
                             ecma_make_empty_completion_value, "none")
  IN IF ~ecma_op_has_binding(h, int_data.lex_env_p, var_name_string_p)
     THEN LET is_configurable_bindings == int_data.is_eval_code
              created == ecma_op_create_mutable_binding(h, int_data.lex_env_p,
                                                        var_name_string_p,
                                                        is_configurable_bindings)
          IN UNION {
               IF o.fatal # "none"
               THEN {IntFatal(o.heap, int_data, o.fatal)}
               ELSE LET read == ecma_op_get_binding_value(o.heap, int_data.lex_env_p,
                                                          var_name_string_p, TRUE)
                    IN IF /\ ecma_is_completion_value_empty(o.ret)
                          /\ \A r \in read :
                               r.ret = ecma_make_simple_completion_value(
                                         ECMA_SIMPLE_VALUE_UNDEFINED)
                       THEN {done(o.heap)}
                       ELSE {IntFatal(o.heap, int_data, "assert"), done(o.heap)}
               : o \in created }
     ELSE {done(h)}

\* a plausible slip: the status codes are taken the other way round
opfunc_exitval_inverted(h, opdata, int_data) ==
  {IntOutcome(h, int_data, ecma_make_exit_completion_value(opdata.status_code = 1), "none")}

opfunc_exitval(h, opdata, int_data) ==
  IF opdata.status_code = 0 \/ opdata.status_code = 1
  THEN {IntOutcome(h, int_data, ecma_make_exit_completion_value(opdata.status_code = 0),
                   "none")}
  ELSE {IntFatal(h, int_data, "assert"),
        IntOutcome(h, int_data, ecma_make_exit_completion_value(opdata.status_code = 0),
                   "none")}

opfunc_throw_value(h, opdata, int_data) ==
  LET var_idx == opdata.var
      var_value == get_variable_value(int_data, var_idx)
  IN {IntOutcome(h, [int_data EXCEPT !.pos = @ + 1],
                 ecma_make_throw_completion_value(var_value.value), "none")}

opfunc_delete_var(h, opdata, int_data) ==
  LET dst_var_idx == opdata.lhs
      name_lit_idx == opdata.name
      lit_oc == int_data.pos
      moved == [int_data EXCEPT !.pos = @ + 1]
      name_string_p == ecma_new_ecma_string_from_lit_index(
                         deserialize_lit_id_by_uid(name_lit_idx, lit_oc))
      ref == ecma_op_get_identifier_reference(h, int_data.lex_env_p, name_string_p,
                                              int_data.is_strict)
  IN IF ref.is_strict
     THEN {IntFatal(h, moved, "unreachable")}
     ELSE IF ref.base = NULL
     THEN {IntOutcome(h, set_variable_value(moved, dst_var_idx, ECMA_SIMPLE_VALUE_TRUE),
                      ecma_make_empty_completion_value, "none")}
     ELSE { IF o.fatal # "none"
            THEN IntFatal(o.heap, moved, o.fatal)
            ELSE IF ecma_is_completion_value_throw(o.ret)
            THEN IntOutcome(o.heap, moved, o.ret, "none")
            ELSE IntOutcome(o.heap, set_variable_value(moved, dst_var_idx, o.ret.value),
                            ecma_make_empty_completion_value, "none")
            : o \in ecma_op_delete_binding(h, ref.base, ref.referenced_name) }

opfunc_this_binding(h, opdata, int_data) ==
  LET dst_var_idx == opdata.lhs
      moved == [int_data EXCEPT !.pos = @ + 1]
  IN {IntOutcome(h, set_variable_value(moved, dst_var_idx, int_data.this_binding),
                 ecma_make_empty_completion_value, "none")}

opfunc_ret(h, opdata, int_data) ==
  {IntOutcome(h, int_data,
              ecma_make_return_completion_value(ECMA_SIMPLE_VALUE_UNDEFINED), "none")}

opfunc_retval(h, opdata, int_data) ==
  LET expr_val == get_variable_value(int_data, opdata.ret_value)
  IN {IntOutcome(h, int_data, ecma_make_return_completion_value(expr_val.value), "none")}

opfunc_meta(h, opdata, int_data) ==
  LET type == opdata.type
  IN IF type \in {"OPCODE_META_TYPE_VARG", "OPCODE_META_TYPE_VARG_PROP_DATA",
                  "OPCODE_META_TYPE_VARG_PROP_GETTER", "OPCODE_META_TYPE_VARG_PROP_SETTER",
                  "OPCODE_META_TYPE_END_WITH", "OPCODE_META_TYPE_CATCH",
                  "OPCODE_META_TYPE_FINALLY", "OPCODE_META_TYPE_END_TRY_CATCH_FINALLY",
                  "OPCODE_META_TYPE_STRICT_CODE"}
     THEN {IntOutcome(h, int_data, ecma_make_meta_completion_value, "none")}
     ELSE {IntFatal(h, int_data, "unreachable")}

\* GetValue for a reference whose base is a value: [[Get]] on an object;
\* on a primitive value, [[Get]] on the temporary object made of it
ecma_op_get_value_object_base(h, base, referenced_name) ==
  IF ecma_is_value_object(base)
  THEN ecma_op_general_object_get(h, base.v, referenced_name)
  ELSE LET obj_base == ecma_op_to_object(h, base)
       IN { Outcome(h, o.ret, o.calls, o.fatal)
            : o \in ecma_op_general_object_get(obj_base.heap, obj_base.ret.value.v,
                                                referenced_name) }

\* a plausible slip: ToString of the name comes before CheckObjectCoercible
opfunc_prop_getter_name_first(h, opdata, int_data) ==
  LET lhs_var_idx == opdata.lhs
      base_var_idx == opdata.obj
      prop_name_var_idx == opdata.prop
      base_value == get_variable_value(int_data, base_var_idx).value
      prop_name_value == get_variable_value(int_data, prop_name_var_idx).value
      check_coercible_ret == ecma_op_check_object_coercible(base_value)
      moved == [int_data EXCEPT !.pos = @ + 1]
  IN UNION {
       IF prop_name_str_value.fatal # "none"
          \/ ecma_is_completion_value_throw(prop_name_str_value.ret)
       THEN {IntCallOutcome(prop_name_str_value.heap, moved, prop_name_str_value.ret,
                            prop_name_str_value.fatal, prop_name_str_value.calls)}
       ELSE IF ecma_is_completion_value_throw(check_coercible_ret)
       THEN {IntCallOutcome(h, moved, check_coercible_ret, "none", prop_name_str_value.calls)}
       ELSE { IF o.fatal # "none" \/ ecma_is_completion_value_throw(o.ret)
              THEN IntCallOutcome(o.heap, moved, o.ret, o.fatal,
                                  prop_name_str_value.calls \o o.calls)
              ELSE IntCallOutcome(o.heap, set_variable_value(moved, lhs_var_idx, o.ret.value),
                                  ecma_make_empty_completion_value, "none",
                                  prop_name_str_value.calls \o o.calls)
              : o \in ecma_op_get_value_object_base(prop_name_str_value.heap, base_value,
                                                    prop_name_str_value.ret.value) }
       : prop_name_str_value \in ecma_op_to_string(h, prop_name_value) }

opfunc_prop_getter(h, opdata, int_data) ==
  LET lhs_var_idx == opdata.lhs
      base_var_idx == opdata.obj
      prop_name_var_idx == opdata.prop
      base_value == get_variable_value(int_data, base_var_idx).value
      prop_name_value == get_variable_value(int_data, prop_name_var_idx).value
      check_coercible_ret == ecma_op_check_object_coercible(base_value)
      moved == [int_data EXCEPT !.pos = @ + 1]
  IN IF ecma_is_completion_value_throw(check_coercible_ret)
     THEN {IntCallOutcome(h, moved, check_coercible_ret, "none", <<>>)}
     ELSE UNION {
       IF prop_name_str_value.fatal # "none"
          \/ ecma_is_completion_value_throw(prop_name_str_value.ret)
       THEN {IntCallOutcome(prop_name_str_value.heap, moved, prop_name_str_value.ret,
                            prop_name_str_value.fatal, prop_name_str_value.calls)}
       ELSE { IF o.fatal # "none" \/ ecma_is_completion_value_throw(o.ret)
              THEN IntCallOutcome(o.heap, moved, o.ret, o.fatal,
                                  prop_name_str_value.calls \o o.calls)
              ELSE IntCallOutcome(o.heap, set_variable_value(moved, lhs_var_idx, o.ret.value),
                                  ecma_make_empty_completion_value, "none",
                                  prop_name_str_value.calls \o o.calls)
              : o \in ecma_op_get_value_object_base(prop_name_str_value.heap, base_value,
                                                    prop_name_str_value.ret.value) }
       : prop_name_str_value \in ecma_op_to_string(h, prop_name_value) }

opfunc_prop_setter(h, opdata, int_data) ==
  LET base_var_idx == opdata.obj
      prop_name_var_idx == opdata.prop
      rhs_var_idx == opdata.rhs
      base_value == get_variable_value(int_data, base_var_idx).value
      prop_name_value == get_variable_value(int_data, prop_name_var_idx).value
      check_coercible_ret == ecma_op_check_object_coercible(base_value)
      rhs_value == get_variable_value(int_data, rhs_var_idx).value
      moved == [int_data EXCEPT !.pos = @ + 1]
  IN IF ecma_is_completion_value_throw(check_coercible_ret)
     THEN {IntCallOutcome(h, moved, check_coercible_ret, "none", <<>>)}
     ELSE UNION {
       IF prop_name_str_value.fatal # "none"
          \/ ecma_is_completion_value_throw(prop_name_str_value.ret)
       THEN {IntCallOutcome(prop_name_str_value.heap, moved, prop_name_str_value.ret,
                            prop_name_str_value.fatal, prop_name_str_value.calls)}
       ELSE { IntCallOutcome(o.heap, moved, o.ret, o.fatal,
                             prop_name_str_value.calls \o o.calls)
              : o \in ecma_op_put_value_object_base(prop_name_str_value.heap, base_value,
                                                    prop_name_str_value.ret.value,
                                                    int_data.is_strict, rhs_value) }
       : prop_name_str_value \in ecma_op_to_string(h, prop_name_value) }

\* opfunc_delete_prop after CheckObjectCoercible, if it is called at all
opfunc_delete_prop_checked(h, opdata, int_data) ==
  LET dst_var_idx == opdata.lhs
      base_var_idx == opdata.base
      name_var_idx == opdata.name
      base_value == get_variable_value(int_data, base_var_idx).value
      name_value == get_variable_value(int_data, name_var_idx).value
      moved == [int_data EXCEPT !.pos = @ + 1]
  IN UNION {
       LET name_string_p == str_name_value.ret.value
           obj_value == ecma_op_to_object(str_name_value.heap, base_value)
           obj_p == obj_value.ret.value.v
       IN IF str_name_value.fatal # "none" \/ ecma_is_completion_value_throw(str_name_value.ret)
          THEN {IntCallOutcome(str_name_value.heap, moved, str_name_value.ret,
                               str_name_value.fatal, str_name_value.calls)}
          ELSE IF ecma_is_value_undefined(base_value)
          THEN IF int_data.is_strict
               THEN {IntCallOutcome(h, moved, ecma_make_empty_completion_value,
                                    "unreachable", str_name_value.calls)}
               ELSE {IntCallOutcome(h, moved,
                                    ecma_make_simple_completion_value(ECMA_SIMPLE_VALUE_TRUE),
                                    "none", str_name_value.calls)}
          ELSE IF ecma_is_completion_value_throw(obj_value.ret)
          THEN {IntCallOutcome(h, moved, obj_value.ret, "none", str_name_value.calls)}
          ELSE { IF o.fatal # "none"
                 THEN IntCallOutcome(o.heap, moved, ecma_make_empty_completion_value, o.fatal,
                                     str_name_value.calls \o o.calls)
                 ELSE IF ecma_is_completion_value_throw(o.ret)
                 THEN IntCallOutcome(o.heap, moved, o.ret, "none",
                                     str_name_value.calls \o o.calls)
                 ELSE IntCallOutcome(o.heap, set_variable_value(moved, dst_var_idx, o.ret.value),
                                     ecma_make_empty_completion_value, "none",
                                     str_name_value.calls \o o.calls)
                 : o \in ecma_op_general_object_delete(obj_value.heap, obj_p, name_string_p,
                                                       int_data.is_strict) }
       : str_name_value \in ecma_op_to_string(h, name_value) }

\* a plausible slip: the base is not checked by CheckObjectCoercible
opfunc_delete_prop_unchecked(h, opdata, int_data) ==
  opfunc_delete_prop_checked(h, opdata, int_data)

opfunc_delete_prop(h, opdata, int_data) ==
  LET check_coercible_ret ==
        ecma_op_check_object_coercible(get_variable_value(int_data, opdata.base).value)
  IN IF ecma_is_completion_value_throw(check_coercible_ret)
     THEN {IntCallOutcome(h, [int_data EXCEPT !.pos = @ + 1], check_coercible_ret,
                          "none", <<>>)}
     ELSE opfunc_delete_prop_checked(h, opdata, int_data)

\* the end of a relational handler: the boolean of the comparison, or its
\* negation, is written to dst; an undefined comparison gives false
RelationalWrite(compare_results, negated, dst_var_idx, int_data) ==
  LET moved == [int_data EXCEPT !.pos = @ + 1]
  IN { IF compare_result.fatal # "none" \/ ecma_is_completion_value_throw(compare_result.ret)
       THEN IntCallOutcome(compare_result.heap, moved, compare_result.ret,
                           compare_result.fatal, compare_result.calls)
       ELSE IntCallOutcome(
              compare_result.heap,
              set_variable_value(
                moved, dst_var_idx,
                IF ecma_is_value_undefined(compare_result.ret.value)
                THEN ECMA_SIMPLE_VALUE_FALSE
                ELSE IF ecma_is_value_true(compare_result.ret.value) = negated
                THEN ECMA_SIMPLE_VALUE_FALSE
                ELSE ECMA_SIMPLE_VALUE_TRUE),
              ecma_make_empty_completion_value, "none", compare_result.calls)
       : compare_result \in compare_results }

opfunc_less_than(h, opdata, int_data) ==
  LET left_value == get_variable_value(int_data, opdata.var_left).value
      right_value == get_variable_value(int_data, opdata.var_right).value
  IN RelationalWrite(ecma_op_abstract_relational_compare(h, left_value, right_value, TRUE),
                     FALSE, opdata.dst, int_data)

opfunc_greater_than(h, opdata, int_data) ==
  LET left_value == get_variable_value(int_data, opdata.var_left).value
      right_value == get_variable_value(int_data, opdata.var_right).value
  IN RelationalWrite(ecma_op_abstract_relational_compare(h, right_value, left_value, FALSE),
                     FALSE, opdata.dst, int_data)

\* a plausible slip: a <= b computed as the negation of a < b
opfunc_less_or_equal_than_unswapped(h, opdata, int_data) ==
  LET left_value == get_variable_value(int_data, opdata.var_left).value
      right_value == get_variable_value(int_data, opdata.var_right).value
  IN RelationalWrite(ecma_op_abstract_relational_compare(h, left_value, right_value, TRUE),
                     TRUE, opdata.dst, int_data)

opfunc_less_or_equal_than(h, opdata, int_data) ==
  LET left_value == get_variable_value(int_data, opdata.var_left).value
      right_value == get_variable_value(int_data, opdata.var_right).value
  IN RelationalWrite(ecma_op_abstract_relational_compare(h, right_value, left_value, FALSE),
                     TRUE, opdata.dst, int_data)

opfunc_greater_or_equal_than(h, opdata, int_data) ==
  LET left_value == get_variable_value(int_data, opdata.var_left).value
      right_value == get_variable_value(int_data, opdata.var_right).value
  IN RelationalWrite(ecma_op_abstract_relational_compare(h, left_value, right_value, TRUE),
                     TRUE, opdata.dst, int_data)

\* whether an idx operand is a register of the frame
is_reg_variable(int_data, var_idx) ==
  var_idx >= int_data.min_reg_num /\ var_idx <= int_data.max_reg_num

\* the environment of the chain that binds the name, NULL when none does
ecma_op_resolve_reference_base(h, lex_env_p, name) ==
  ecma_op_get_identifier_reference(h, lex_env_p, name, FALSE).base

\* GetValue for a reference whose base is an environment
ecma_op_get_value_lex_env_base(h, ref_base_lex_env_p, var_name_string_p, is_strict) ==
  ecma_op_get_binding_value(h, ref_base_lex_env_p, var_name_string_p, is_strict)

\* a plausible slip: an unresolvable identifier is read as any other is
evaluate_arg_for_typeof_unguarded(h, int_data, var_idx) ==
  IF is_reg_variable(int_data, var_idx)
  THEN {Outcome(h, get_variable_value(int_data, var_idx), <<>>, "none")}
  ELSE LET var_name_string_p ==
             ecma_new_ecma_string_from_lit_index(deserialize_lit_id_by_uid(var_idx, int_data.pos))
           ref_base_lex_env_p ==
             ecma_op_resolve_reference_base(h, int_data.lex_env_p, var_name_string_p)
       IN IF ref_base_lex_env_p = NULL
          THEN {Outcome(h, ecma_make_throw_obj_completion_value(ECMA_ERROR_REFERENCE),
                        <<>>, "none")}
          ELSE ecma_op_get_value_lex_env_base(h, ref_base_lex_env_p, var_name_string_p,
                                              int_data.is_strict)

evaluate_arg_for_typeof(h, int_data, var_idx) ==
  IF is_reg_variable(int_data, var_idx)
  THEN {Outcome(h, get_variable_value(int_data, var_idx), <<>>, "none")}
  ELSE LET var_name_string_p ==
             ecma_new_ecma_string_from_lit_index(deserialize_lit_id_by_uid(var_idx, int_data.pos))
           ref_base_lex_env_p ==
             ecma_op_resolve_reference_base(h, int_data.lex_env_p, var_name_string_p)
       IN IF ref_base_lex_env_p = NULL
          THEN {Outcome(h, ecma_make_simple_completion_value(ECMA_SIMPLE_VALUE_UNDEFINED),
                        <<>>, "none")}
          ELSE ecma_op_get_value_lex_env_base(h, ref_base_lex_env_p, var_name_string_p,
                                              int_data.is_strict)

opfunc_typeof(h, opdata, int_data) ==
  LET dst_var_idx == opdata.lhs
      obj_var_idx == opdata.obj
      moved == [int_data EXCEPT !.pos = @ + 1]
  IN { IF typeof_arg.fatal # "none" \/ ecma_is_completion_value_throw(typeof_arg.ret)
       THEN IntCallOutcome(typeof_arg.heap, moved, typeof_arg.ret, typeof_arg.fatal,
                           typeof_arg.calls)
       ELSE LET value == typeof_arg.ret.value
                type_str_p ==
                  IF ecma_is_value_undefined(value) THEN ecma_get_magic_string("undefined")
                  ELSE IF ecma_is_value_null(value) THEN ecma_get_magic_string("object")
                  ELSE IF ecma_is_value_boolean(value) THEN ecma_get_magic_string("boolean")
                  ELSE IF ecma_is_value_number(value) THEN ecma_get_magic_string("number")
                  ELSE IF ecma_is_value_string(value) THEN ecma_get_magic_string("string")
                  ELSE IF ecma_op_is_callable(typeof_arg.heap, value) THEN ecma_get_magic_string("function")
                  ELSE ecma_get_magic_string("object")
            IN IntCallOutcome(typeof_arg.heap,
                              set_variable_value(moved, dst_var_idx, type_str_p),
                              ecma_make_empty_completion_value,
                              IF ecma_is_value_empty(value) THEN "assert" ELSE "none",
                              typeof_arg.calls)
       : typeof_arg \in evaluate_arg_for_typeof(h, int_data, obj_var_idx) }

\* opfunc_with up to its call of run_int_loop
opfunc_with(h, opdata, int_data) ==
  LET expr_var_idx == opdata.expr
      expr_value == get_variable_value(int_data, expr_var_idx).value
      obj_expr_value == ecma_op_to_object(h, expr_value)
      obj_p == obj_expr_value.ret.value.v
      old_env_p == int_data.lex_env_p
      new_heap == ecma_create_object_lex_env(obj_expr_value.heap, old_env_p, obj_p, TRUE)
      new_env_p == Len(new_heap)
  IN IF ecma_is_completion_value_throw(obj_expr_value.ret)
     THEN {IntOutcome(h, int_data, obj_expr_value.ret, "none")}
     ELSE {IntOutcome(new_heap,
                      [int_data EXCEPT !.pos = @ + 1,
                                       !.lex_env_p = new_env_p,
                                       !.loops = Append(@, [opdata |-> opdata,
                                                            old_env_p |-> old_env_p,
                                                            new_env_p |-> new_env_p])],
                      ecma_make_empty_completion_value, "none")}

(***************************************************************************)
(* State.                                                                  *)
(***************************************************************************)
VARIABLES
  heap,    \* the objects and lexical environments, by heap index
  ret,     \* the completion value of the last operation
  op,      \* the last operation and its arguments
  calls,   \* the [[Call]]s made by the last operation
  fatal,   \* "none", or why the process was ended
  program, \* __program, <<>> while it is NULL
  frames,  \* the interpreter contexts of the running frames, innermost last
  run,     \* where run_int is
  result   \* what run_int returned, "none" while it has not

vars == <<heap, ret, op, calls, fatal, program, frames, run, result>>
interpreter == <<program, frames, run, result>>

MkOp(name, obj_p, pname, desc, is_throw, value) ==
  [name |-> name, obj |-> obj_p, pname |-> pname, desc |-> desc,
   is_throw |-> is_throw, value |-> value]

NoOp == MkOp("none", NULL, "", ecma_make_empty_property_descriptor, FALSE,
             ECMA_SIMPLE_VALUE_UNDEFINED)

\* one of the outcomes of the operation becomes the state
Apply(outcomes, operation) ==
  \E o \in outcomes :
    /\ heap'  = o.heap
    /\ ret'   = o.ret
    /\ calls' = o.calls
    /\ fatal' = o.fatal
    /\ op'    = operation
    /\ UNCHANGED interpreter

\* no operation is in progress and the process is alive
Idle == fatal = "none" /\ op = NoOp

\* the caller has taken the completion value of the last operation
Return ==
  /\ fatal = "none"
  /\ op # NoOp
  /\ op' = NoOp
  /\ ret' = ecma_make_empty_completion_value
  /\ calls' = <<>>
  /\ UNCHANGED <<heap, fatal>>
  /\ UNCHANGED interpreter

(***************************************************************************)
(* The object operations, called on general objects.                       *)
(***************************************************************************)
DefineOwnProperty(obj_p, name, desc, is_throw) ==
  /\ Idle
  /\ Apply(ecma_op_general_object_define_own_property(heap, obj_p, name, desc, is_throw),
           MkOp("define_own_property", obj_p, name, desc, is_throw,
                ECMA_SIMPLE_VALUE_UNDEFINED))

Put(obj_p, name, value, is_throw) ==
  /\ Idle
  /\ Apply(ecma_op_general_object_put(heap, obj_p, name, value, is_throw),
           MkOp("put", obj_p, name, ecma_make_empty_property_descriptor, is_throw, value))

Delete(obj_p, name, is_throw) ==
  /\ Idle
  /\ Apply(ecma_op_general_object_delete(heap, obj_p, name, is_throw),
           MkOp("delete", obj_p, name, ecma_make_empty_property_descriptor, is_throw,
                ECMA_SIMPLE_VALUE_UNDEFINED))

Get(obj_p, name) ==
  /\ Idle
  /\ Apply(ecma_op_general_object_get(heap, obj_p, name),
           MkOp("get", obj_p, name, ecma_make_empty_property_descriptor, FALSE,
                ECMA_SIMPLE_VALUE_UNDEFINED))

CanPut(obj_p, name) ==
  /\ Idle
  /\ Apply({Outcome(heap,
                    ecma_make_simple_completion_value(
                      IF ecma_op_general_object_can_put(heap, obj_p, name)
                      THEN ECMA_SIMPLE_VALUE_TRUE ELSE ECMA_SIMPLE_VALUE_FALSE),
                    <<>>, "none")},
           MkOp("can_put", obj_p, name, ecma_make_empty_property_descriptor, FALSE,
                ECMA_SIMPLE_VALUE_UNDEFINED))

(***************************************************************************)
(* The inputs of the object operations.                                    *)
(***************************************************************************)
\* the values stored by the calls
InputValues == {NumberValue(NUM_PZERO), NumberValue(NUM_NZERO)}

NoValue == MkValue("none", 0)
NoPointer == -1

\* a descriptor built from the empty one, each field set with its flag
MkDescriptor(value, w, e, c, get_p, set_p) ==
  [is_value_defined |-> value # NoValue,
   value |-> IF value = NoValue THEN ECMA_SIMPLE_VALUE_UNDEFINED ELSE value,
   is_writable_defined |-> w # "absent", is_writable |-> w = "true",
   is_enumerable_defined |-> e # "absent", is_enumerable |-> e = "true",
   is_configurable_defined |-> c # "absent", is_configurable |-> c = "true",
   is_get_defined |-> get_p # NoPointer,
   get_p |-> IF get_p = NoPointer THEN NULL ELSE get_p,
   is_set_defined |-> set_p # NoPointer,
   set_p |-> IF set_p = NoPointer THEN NULL ELSE set_p]

Flag == {"absent", "true", "false"}
Pointers == {NULL} \cup Functions

\* generic and data descriptors, and accessor descriptors
Descriptors ==
  { MkDescriptor(value, w, e, c, NoPointer, NoPointer) :
      value \in InputValues \cup {NoValue}, w \in Flag, e \in Flag, c \in Flag }
  \cup
  { MkDescriptor(NoValue, "absent", pe[1], pe[2], gs[1], gs[2]) :
      pe \in Flag \X Flag,
      gs \in ((Pointers \cup {NoPointer}) \X (Pointers \cup {NoPointer}))
              \ {<<NoPointer, NoPointer>>} }

\* the objects: 1 is the object the operations are called on, 2 may be its
\* prototype
PrototypeProperties ==
  { <<>>,
    <<MkDataProperty("p", NumberValue(NUM_ONE), TRUE, TRUE, TRUE)>>,
    <<MkDataProperty("p", NumberValue(NUM_ONE), FALSE, TRUE, TRUE)>>,
    <<MkAccessorProperty("p", NULL, 11, TRUE, TRUE)>>,
    <<MkAccessorProperty("p", 11, NULL, TRUE, TRUE)>> }

OtherProperties ==
  { <<>>, <<MkDataProperty("q", NumberValue(NUM_ONE), TRUE, TRUE, FALSE)>> }

\* the property "p" the object may have from the start
OwnProperties ==
  { <<>>,
    <<MkDataProperty("p", NumberValue(NUM_PZERO), TRUE, TRUE, TRUE)>>,
    <<MkDataProperty("p", NumberValue(NUM_PZERO), FALSE, TRUE, FALSE)>>,
    <<MkAccessorProperty("p", 11, 11, TRUE, TRUE)>>,
    <<MkAccessorProperty("p", 11, NULL, FALSE, FALSE)>> }

InitObjects ==
  /\ \E extensible \in BOOLEAN, other \in OtherProperties, own \in OwnProperties :
       \/ heap = (1 :> MkObject(NULL, extensible, own \o other)
                  @@ 2 :> MkObject(NULL, TRUE, <<>>))
       \/ \E inherited \in PrototypeProperties :
            heap = (1 :> MkObject(2, extensible, own \o other)
                    @@ 2 :> MkObject(NULL, TRUE, inherited))
  /\ ret = ecma_make_empty_completion_value
  /\ op = NoOp
  /\ calls = <<>>
  /\ fatal = "none"
  /\ program = <<>>
  /\ frames = <<>>
  /\ run = "uninit"
  /\ result = "none"

NextObjects ==
  \/ \E desc \in Descriptors, is_throw \in BOOLEAN :
       DefineOwnProperty(1, "p", desc, is_throw)
  \/ \E value \in InputValues, is_throw \in BOOLEAN : Put(1, "p", value, is_throw)
  \/ \E is_throw \in BOOLEAN : Delete(1, "p", is_throw)
  \/ Get(1, "p")
  \/ CanPut(1, "p")
  \/ Return

SpecObjects == InitObjects /\ [][NextObjects]_vars

(***************************************************************************)
(* [[DefaultValue]], called on an object or a Date object whose toString   *)
(* and valueOf are absent, a number, a function object, or an accessor.    *)
(***************************************************************************)
DefaultValue(obj_p, hint) ==
  /\ Idle
  /\ Apply(ecma_op_general_object_default_value(heap, obj_p, hint),
           [MkOp("default_value", obj_p, "", ecma_make_empty_property_descriptor, FALSE,
                 ECMA_SIMPLE_VALUE_UNDEFINED) EXCEPT !.pname = hint])

\* what the property of a method can be
MethodProperties(name) ==
  {<<>>,
   <<MkDataProperty(name, NumberValue(NUM_PZERO), TRUE, FALSE, TRUE)>>}
  \cup {<<MkDataProperty(name, ObjectValue(func_obj_p), TRUE, FALSE, TRUE)>>
          : func_obj_p \in Functions}
  \cup {<<MkAccessorProperty(name, func_obj_p, NULL, FALSE, TRUE)>> : func_obj_p \in Functions}

InitDefault ==
  /\ \E to_string \in MethodProperties("toString"), value_of \in MethodProperties("valueOf"),
        class \in {"Object", "Date"}, inherited \in BOOLEAN :
       heap = IF inherited
              THEN <<[MkObject(2, TRUE, to_string) EXCEPT !.class = class],
                     MkObject(NULL, TRUE, value_of)>>
              ELSE <<[MkObject(2, TRUE, to_string \o value_of) EXCEPT !.class = class],
                     MkObject(NULL, TRUE, <<>>)>>
  /\ ret = ecma_make_empty_completion_value
  /\ op = NoOp
  /\ calls = <<>>
  /\ fatal = "none"
  /\ program = <<>>
  /\ frames = <<>>
  /\ run = "uninit"
  /\ result = "none"

NextDefault ==
  \/ \E hint \in {ECMA_PREFERRED_TYPE_NO, ECMA_PREFERRED_TYPE_NUMBER,
                   ECMA_PREFERRED_TYPE_STRING} : DefaultValue(1, hint)
  \/ Return

SpecDefault == InitDefault /\ [][NextDefault]_vars

(***************************************************************************)
(* The interpreter.                                                        *)
(***************************************************************************)
\* the opcode at the counter; counters start at 0
read_opcode(counter) == program[counter + 1]

\* the record of a dispatched opcode
MkOpcodeOp(opdata) ==
  [name |-> opdata.op_idx, obj |-> NULL, pname |-> "",
   desc |-> ecma_make_empty_property_descriptor, is_throw |-> FALSE,
   value |-> ECMA_SIMPLE_VALUE_UNDEFINED, opdata |-> opdata]

\* the heap ecma_init makes: the Global object and its prototype
GLOBAL_OBJECT == 1
ecma_init == <<MkObject(2, TRUE, <<>>), MkObject(NULL, TRUE, <<>>)>>

(***************************************************************************)
(* The programs: a register window, statements, and the exit of the script *)
(* the compiler ends every program with.                                   *)
(***************************************************************************)
\* the registers of the frame
MIN_REG == 128
MAX_REG == 129
\* statements of a program
MaxStatements == 3

Statements(is_strict) ==
  { <<[op_idx |-> "nop"]>>,
    <<[op_idx |-> "assignment", var_left |-> MIN_REG, type_value_right |-> "OPCODE_ARG_TYPE_SIMPLE", value_right |-> "ECMA_SIMPLE_VALUE_TRUE"]>>,
    <<[op_idx |-> "assignment", var_left |-> MAX_REG, type_value_right |-> "OPCODE_ARG_TYPE_SMALLINT_NEGATE", value_right |-> 1]>>,
    <<[op_idx |-> "assignment", var_left |-> MAX_REG, type_value_right |-> "OPCODE_ARG_TYPE_VARIABLE", value_right |-> MIN_REG]>>,
    <<[op_idx |-> "assignment", var_left |-> MIN_REG, type_value_right |-> "OPCODE_ARG_TYPE_STRING", value_right |-> 0], [op_idx |-> "throw_value", var |-> MIN_REG]>>,
    <<[op_idx |-> "throw_value", var |-> MAX_REG]>>,
    <<[op_idx |-> "exitval", status_code |-> 0]>>,
    <<[op_idx |-> "exitval", status_code |-> 1]>> }
  \cup { <<[op_idx |-> "var_decl", variable_name |-> uid]>> : uid \in {0, 1} }
  \cup IF is_strict THEN {} ELSE { <<[op_idx |-> "delete_var", lhs |-> MAX_REG, name |-> uid]>> : uid \in {0, 1} }

RECURSIVE Bodies(_, _)
Bodies(is_strict, n) ==
  IF n = 0 THEN {<<>>}
  ELSE Bodies(is_strict, n - 1)
       \cup { body \o statement : body \in Bodies(is_strict, n - 1),
                                  statement \in Statements(is_strict) }

Programs ==
  { <<[op_idx |-> "reg_var_decl", min |-> MIN_REG, max |-> MAX_REG]>> \o body \o <<[op_idx |-> "exitval", status_code |-> status_code]>> :
      body \in Bodies(FALSE, MaxStatements), status_code \in {0, 1} }
  \cup
  { <<[op_idx |-> "meta", type |-> "OPCODE_META_TYPE_STRICT_CODE", data_1 |-> 0, data_2 |-> 0], [op_idx |-> "reg_var_decl", min |-> MIN_REG, max |-> MAX_REG]>>
    \o body \o <<[op_idx |-> "exitval", status_code |-> status_code]>> :
      body \in Bodies(TRUE, MaxStatements), status_code \in {0, 1} }

\* init_int, called with one of the programs
init_int(programs) ==
  /\ run = "uninit"
  /\ program = <<>>
  /\ program' \in programs
  /\ run' = "ready"
  /\ UNCHANGED <<heap, ret, op, calls, fatal, frames, result>>

\* run_int up to the first opcode of the frame that run_int_from_pos makes
run_int(config_declarative) ==
  /\ run = "ready"
  /\ fatal = "none"
  /\ LET first_opcode == read_opcode(0)
         is_strict == /\ first_opcode.op_idx = "meta"
                      /\ first_opcode.type = "OPCODE_META_TYPE_STRICT_CODE"
         start_pos == IF is_strict THEN 1 ELSE 0
         glob_obj_p == GLOBAL_OBJECT
         h == ecma_op_create_global_environment(ecma_init, glob_obj_p, config_declarative)
         lex_env_p == Len(h)
         curr == read_opcode(start_pos)
     IN /\ curr.op_idx = "reg_var_decl"
        /\ curr.max >= curr.min
        /\ heap' = h
        /\ frames' = <<MkIntData(start_pos + 1, ObjectValue(glob_obj_p), lex_env_p,
                                 is_strict, FALSE, curr.min, curr.max)>>
        /\ run' = "running"
        /\ ret' = ecma_make_empty_completion_value
        /\ UNCHANGED <<op, calls, fatal, program, result>>

\* the loop of run_int_loop is about to dispatch the opcode at pos
Dispatching(op_idx) ==
  /\ run = "running"
  /\ fatal = "none"
  /\ frames # <<>>
  /\ ecma_is_completion_value_normal(ret)
  /\ read_opcode(frames[Len(frames)].pos).op_idx = op_idx

\* the handler is in a [[Call]] of byte-code
IsEntering(o) == o.ret.type = "call"

\* the stack of frames with one more frame
ecma_stack_add_frame(stack, frame) == Append(stack, frame)

\* the stack of frames without its top frame
ecma_stack_free_frame(stack) == SubSeq(stack, 1, Len(stack) - 1)

\* a plausible slip: the frame is not freed when the loop ended in a throw
run_int_from_pos_exit_keeping_on_throw(stack, completion) ==
  IF ecma_is_completion_value_throw(completion) THEN stack ELSE ecma_stack_free_frame(stack)

\* run_int_from_pos after its run_int_loop: the frame and the scratch
\* number are freed, whatever the completion
run_int_from_pos_exit(stack, completion) == ecma_stack_free_frame(stack)

\* the frames when the handler has returned or is in a [[Call]] of
\* byte-code, whose frame run_int_from_pos has added
Entered(stack, o) == IF IsEntering(o) THEN ecma_stack_add_frame(stack, o.frame) ELSE stack

\* one turn of the loop: the handler, then the assertion on its completion
Dispatch(outcomes) ==
  \E o \in outcomes :
    /\ heap' = o.heap
    /\ frames' = Entered([frames EXCEPT ![Len(frames)] = o.int_data], o)
    /\ ret' = IF IsEntering(o) THEN ecma_make_empty_completion_value ELSE o.ret
    /\ fatal' = IF o.fatal # "none" THEN o.fatal
                ELSE IF ecma_is_completion_value_normal(o.ret)
                        /\ ~ecma_is_completion_value_empty(o.ret)
                THEN "assert" ELSE "none"
    /\ op' = MkOpcodeOp(read_opcode(frames[Len(frames)].pos))
    /\ calls' = IF "calls" \in DOMAIN o THEN o.calls ELSE <<>>
    /\ UNCHANGED <<program, run, result>>

Nop ==
  /\ Dispatching("nop")
  /\ Dispatch(opfunc_nop(heap, read_opcode(frames[Len(frames)].pos), frames[Len(frames)]))

Assignment ==
  /\ Dispatching("assignment")
  /\ Dispatch(opfunc_assignment(heap, read_opcode(frames[Len(frames)].pos),
                                frames[Len(frames)]))

VarDecl ==
  /\ Dispatching("var_decl")
  /\ Dispatch(opfunc_var_decl(heap, read_opcode(frames[Len(frames)].pos),
                              frames[Len(frames)]))

Exitval ==
  /\ Dispatching("exitval")
  /\ Dispatch(opfunc_exitval(heap, read_opcode(frames[Len(frames)].pos),
                             frames[Len(frames)]))

ThrowValue ==
  /\ Dispatching("throw_value")
  /\ Dispatch(opfunc_throw_value(heap, read_opcode(frames[Len(frames)].pos),
                                 frames[Len(frames)]))

DeleteVar ==
  /\ Dispatching("delete_var")
  /\ Dispatch(opfunc_delete_var(heap, read_opcode(frames[Len(frames)].pos),
                                frames[Len(frames)]))

\* a plausible slip: the completion that ended the loop is handed over as
\* it is
run_int_loop_return_unconverted(completion) == completion

\* the end of run_int_loop: what it hands to its caller
run_int_loop_return(completion) ==
  IF ecma_is_completion_value_meta(completion)
  THEN ecma_make_empty_completion_value
  ELSE completion

\* a plausible slip: the environment of the body stays the current one
opfunc_with_return_keeping_env(h, evaluation_completion, int_data) ==
  LET meta_opcode == read_opcode(int_data.pos)
      left == [int_data EXCEPT !.loops = SubSeq(@, 1, Len(@) - 1)]
      ended == IntOutcome(h, [left EXCEPT !.pos = @ + 1],
                          ecma_make_empty_completion_value, "none")
  IN IF ecma_is_completion_value_normal(evaluation_completion)
     THEN IF /\ ecma_is_completion_value_empty(evaluation_completion)
             /\ meta_opcode.op_idx = "meta"
             /\ meta_opcode.type = "OPCODE_META_TYPE_END_WITH"
          THEN {ended}
          ELSE {IntFatal(h, left, "assert"), ended}
     ELSE {IntOutcome(h, left, evaluation_completion, "none")}

\* opfunc_with after run_int_loop
opfunc_with_return(h, evaluation_completion, int_data) ==
  LET with_p == int_data.loops[Len(int_data.loops)]
      meta_opcode == read_opcode(int_data.pos)
      left == [int_data EXCEPT !.lex_env_p = with_p.old_env_p,
                               !.loops = SubSeq(@, 1, Len(@) - 1)]
      ended == IntOutcome(h, [left EXCEPT !.pos = @ + 1],
                          ecma_make_empty_completion_value, "none")
  IN IF ecma_is_completion_value_normal(evaluation_completion)
     THEN IF /\ ecma_is_completion_value_empty(evaluation_completion)
             /\ meta_opcode.op_idx = "meta"
             /\ meta_opcode.type = "OPCODE_META_TYPE_END_WITH"
          THEN {ended}
          ELSE {IntFatal(h, left, "assert"), ended}
     ELSE {IntOutcome(h, left, evaluation_completion, "none")}

ThisBinding ==
  /\ Dispatching("this_binding")
  /\ Dispatch(opfunc_this_binding(heap, read_opcode(frames[Len(frames)].pos),
                                  frames[Len(frames)]))

Ret ==
  /\ Dispatching("ret")
  /\ Dispatch(opfunc_ret(heap, read_opcode(frames[Len(frames)].pos), frames[Len(frames)]))

Retval ==
  /\ Dispatching("retval")
  /\ Dispatch(opfunc_retval(heap, read_opcode(frames[Len(frames)].pos),
                            frames[Len(frames)]))

Meta ==
  /\ Dispatching("meta")
  /\ Dispatch(opfunc_meta(heap, read_opcode(frames[Len(frames)].pos), frames[Len(frames)]))

PropSetter ==
  /\ Dispatching("prop_setter")
  /\ Dispatch(opfunc_prop_setter(heap, read_opcode(frames[Len(frames)].pos),
                                 frames[Len(frames)]))

PropGetter ==
  /\ Dispatching("prop_getter")
  /\ Dispatch(opfunc_prop_getter(heap, read_opcode(frames[Len(frames)].pos),
                                 frames[Len(frames)]))

LessThan ==
  /\ Dispatching("less_than")
  /\ Dispatch(opfunc_less_than(heap, read_opcode(frames[Len(frames)].pos),
                               frames[Len(frames)]))

GreaterThan ==
  /\ Dispatching("greater_than")
  /\ Dispatch(opfunc_greater_than(heap, read_opcode(frames[Len(frames)].pos),
                                  frames[Len(frames)]))

LessOrEqualThan ==
  /\ Dispatching("less_or_equal_than")
  /\ Dispatch(opfunc_less_or_equal_than(heap, read_opcode(frames[Len(frames)].pos),
                                        frames[Len(frames)]))

GreaterOrEqualThan ==
  /\ Dispatching("greater_or_equal_than")
  /\ Dispatch(opfunc_greater_or_equal_than(heap, read_opcode(frames[Len(frames)].pos),
                                           frames[Len(frames)]))

Typeof ==
  /\ Dispatching("typeof")
  /\ Dispatch(opfunc_typeof(heap, read_opcode(frames[Len(frames)].pos), frames[Len(frames)]))

DeleteProp ==
  /\ Dispatching("delete_prop")
  /\ Dispatch(opfunc_delete_prop(heap, read_opcode(frames[Len(frames)].pos),
                                 frames[Len(frames)]))

\* the dispatch of with: a throw of ToObject ends the handler, otherwise the
\* handler is in its run_int_loop, which is about to dispatch
With ==
  /\ Dispatching("with")
  /\ Dispatch(opfunc_with(heap, read_opcode(frames[Len(frames)].pos), frames[Len(frames)]))

\* the run_int_loop that opfunc_with called has ended: the rest of the
\* handler, then the assertion of the loop that dispatched it
WithReturn ==
  /\ run = "running"
  /\ fatal = "none"
  /\ frames # <<>>
  /\ ~ecma_is_completion_value_normal(ret)
  /\ frames[Len(frames)].loops # <<>>
  /\ frames[Len(frames)].loops[Len(frames[Len(frames)].loops)].opdata.op_idx = "with"
  /\ \E o \in opfunc_with_return(heap, run_int_loop_return(ret), frames[Len(frames)]) :
       /\ heap' = o.heap
       /\ frames' = [frames EXCEPT ![Len(frames)] = o.int_data]
       /\ ret' = o.ret
       /\ fatal' = IF o.fatal # "none" THEN o.fatal
                   ELSE IF ecma_is_completion_value_normal(o.ret)
                           /\ ~ecma_is_completion_value_empty(o.ret)
                   THEN "assert" ELSE "none"
       /\ op' = MkOpcodeOp(frames[Len(frames)].loops[Len(frames[Len(frames)].loops)].opdata)
       /\ calls' = <<>>
       /\ UNCHANGED <<program, run, result>>

(***************************************************************************)
(* Function objects made of byte-code.  func_expr_n and func_decl_n are    *)
(* followed by the meta function_end that holds the length of the code of  *)
(* the function, then by the code: an optional meta strict_code, the       *)
(* reg_var_decl of the frame and the body.                                 *)
(***************************************************************************)
\* the name index of a function expression without a name
INVALID_VALUE == 255

\* the function object: its [[Scope]], its strictness and the counter of the
\* first opcode of its code; it is the last cell of the heap returned
ecma_op_create_function_object(h, scope_p, is_strict, first_opcode_idx) ==
  Append(h, [lexenv |-> "none", proto |-> NULL, extensible |-> TRUE,
             binding |-> NULL, provide_this |-> FALSE, props |-> <<>>,
             class |-> "Function", scope |-> scope_p, is_strict |-> is_strict,
             code |-> first_opcode_idx])

\* the names of the parameters are read from the metas after the opcode
fill_params_list(int_data, params_number) ==
  [int_data EXCEPT !.pos = @ + params_number]

calc_opcode_counter_from_idx_idx(oc_idx_1, oc_idx_2) ==
  (oc_idx_1 * 256 + oc_idx_2) % 65536

read_meta_opcode_counter(expected_type, int_data) ==
  LET meta_opcode == read_opcode(int_data.pos)
  IN calc_opcode_counter_from_idx_idx(meta_opcode.data_1, meta_opcode.data_2)

\* the opcode after the meta function_end is the marker of strict code
FunctionCodeIsMarked(pos) ==
  LET next_opcode == read_opcode(pos)
  IN next_opcode.op_idx = "meta" /\ next_opcode.type = "OPCODE_META_TYPE_STRICT_CODE"

\* a plausible slip: the strictness of the creating frame is not inherited
FunctionIsStrict_marker_only(int_data, marked) == marked

\* the strictness func_expr_n and function_declaration give the function
FunctionIsStrict(int_data, marked) == int_data.is_strict \/ marked

\* a plausible slip: the name of a function expression is bound in the
\* environment of the frame
FunctionExpressionScope_current(h, int_data, is_named_func_expr, name) ==
  IF is_named_func_expr
  THEN [heap |-> ecma_op_create_immutable_binding(h, int_data.lex_env_p, name),
        scope_p |-> int_data.lex_env_p]
  ELSE [heap |-> h, scope_p |-> int_data.lex_env_p]

\* the scope of a function expression: for a named one a new declarative
\* environment with the immutable binding of the name
FunctionExpressionScope(h, int_data, is_named_func_expr, name) ==
  IF is_named_func_expr
  THEN [heap |-> ecma_op_create_immutable_binding(
                   ecma_create_decl_lex_env(h, int_data.lex_env_p), Len(h) + 1, name),
        scope_p |-> Len(h) + 1]
  ELSE [heap |-> h, scope_p |-> int_data.lex_env_p]

opfunc_func_expr_n(h, opdata, int_data) ==
  LET lit_oc == int_data.pos
      dst_var_idx == opdata.lhs
      function_name_lit_idx == opdata.name_lit_idx
      params_number == opdata.arg_list
      is_named_func_expr == function_name_lit_idx # INVALID_VALUE
      filled == fill_params_list([int_data EXCEPT !.pos = @ + 1], params_number)
      function_code_end_oc ==
        (read_meta_opcode_counter("OPCODE_META_TYPE_FUNCTION_END", filled) + filled.pos) % 65536
      marked == FunctionCodeIsMarked(filled.pos + 1)
      is_strict == FunctionIsStrict(int_data, marked)
      code_pos == IF marked THEN filled.pos + 2 ELSE filled.pos + 1
      function_name_string_p ==
        IF is_named_func_expr
        THEN ecma_new_ecma_string_from_lit_index(
               deserialize_lit_id_by_uid(function_name_lit_idx, lit_oc))
        ELSE ""
      scope == FunctionExpressionScope(h, int_data, is_named_func_expr,
                                       function_name_string_p)
      created == ecma_op_create_function_object(scope.heap, scope.scope_p, is_strict, code_pos)
      func_obj_p == Len(created)
      written == set_variable_value(int_data, dst_var_idx, ObjectValue(func_obj_p))
      initialised ==
        IF is_named_func_expr
        THEN ecma_op_initialize_immutable_binding(created, scope.scope_p,
                                                  function_name_string_p,
                                                  ObjectValue(func_obj_p))
        ELSE {Outcome(created, ecma_make_empty_completion_value, <<>>, "none")}
      meta_opcode == read_opcode(filled.pos)
  IN IF ~(meta_opcode.op_idx = "meta" /\ meta_opcode.type = "OPCODE_META_TYPE_FUNCTION_END")
     THEN {IntFatal(h, filled, "assert")}
     ELSE { IntOutcome(o.heap, [written EXCEPT !.pos = function_code_end_oc],
                       ecma_make_empty_completion_value, o.fatal)
            : o \in initialised }

\* the declaration binding instantiation of a function declaration
\* (ECMA-262 v5, 10.5, step 5): the function object is made and bound to its
\* name in the environment
ecma_op_function_declaration(h, lex_env_p, function_name_p, function_code_opcode_idx, is_strict, is_configurable_bindings) ==
  LET created == ecma_op_create_function_object(h, lex_env_p, is_strict,
                                                function_code_opcode_idx)
      func_obj_p == Len(created)
      bound == IF ecma_op_has_binding(created, lex_env_p, function_name_p)
               THEN {Outcome(created, ecma_make_empty_completion_value, <<>>, "none")}
               ELSE ecma_op_create_mutable_binding(created, lex_env_p, function_name_p,
                                                   is_configurable_bindings)
  IN UNION { IF o.fatal # "none" \/ ecma_is_completion_value_throw(o.ret)
             THEN {o}
             ELSE ecma_op_set_mutable_binding(o.heap, lex_env_p, function_name_p,
                                              ObjectValue(func_obj_p), is_strict)
             : o \in bound }

function_declaration(h, int_data, function_name_lit_id, args_number) ==
  LET function_code_end_oc ==
        (read_meta_opcode_counter("OPCODE_META_TYPE_FUNCTION_END", int_data) + int_data.pos)
          % 65536
      marked == FunctionCodeIsMarked(int_data.pos + 1)
      is_strict == FunctionIsStrict(int_data, marked)
      is_configurable_bindings == int_data.is_eval_code
      code_pos == IF marked THEN int_data.pos + 2 ELSE int_data.pos + 1
      function_name_string_p == ecma_new_ecma_string_from_lit_index(function_name_lit_id)
      meta_opcode == read_opcode(int_data.pos)
  IN IF ~(meta_opcode.op_idx = "meta" /\ meta_opcode.type = "OPCODE_META_TYPE_FUNCTION_END")
     THEN {IntFatal(h, int_data, "assert")}
     ELSE { IntCallOutcome(o.heap, [int_data EXCEPT !.pos = function_code_end_oc],
                           o.ret, o.fatal, o.calls)
            : o \in ecma_op_function_declaration(h, int_data.lex_env_p,
                                                 function_name_string_p, code_pos,
                                                 is_strict, is_configurable_bindings) }

opfunc_func_decl_n(h, opdata, int_data) ==
  LET function_name_idx == opdata.name_lit_idx
      params_number == opdata.arg_list
      function_name_lit_id == deserialize_lit_id_by_uid(function_name_idx, int_data.pos)
      filled == fill_params_list([int_data EXCEPT !.pos = @ + 1], params_number)
  IN function_declaration(h, filled, function_name_lit_id, params_number)

(***************************************************************************)
(* Calls.  call_n and construct_n gather their arguments with              *)
(* fill_varg_list, which runs a run_int_loop for each argument up to its   *)
(* meta varg and reads the register the meta names.                        *)
(***************************************************************************)
\* ImplicitThisValue
ecma_op_implicit_this_value(h, lex_env_p) ==
  IF ecma_get_lex_env_type(h, lex_env_p) = ECMA_LEXICAL_ENVIRONMENT_DECLARATIVE
  THEN ecma_make_simple_completion_value(ECMA_SIMPLE_VALUE_UNDEFINED)
  ELSE IF h[lex_env_p].provide_this
  THEN ecma_make_normal_completion_value(
         ObjectValue(ecma_get_lex_env_binding_object(h, lex_env_p)))
  ELSE ecma_make_simple_completion_value(ECMA_SIMPLE_VALUE_UNDEFINED)

\* a plausible slip: the this value is always the implicit one
opfunc_call_n_call_implicit_this(h, call_p, arg_values, int_data) ==
  LET this_value == ecma_op_implicit_this_value(h, int_data.lex_env_p).value
      func_value == call_p.func_value
  IN IF ~ecma_op_is_callable(h, func_value)
     THEN {IntCallOutcome(h, int_data,
                          ecma_make_throw_obj_completion_value(ECMA_ERROR_TYPE), "none", <<>>)}
     ELSE { IF ecma_is_completion_value_throw(call_ret_value)
            THEN IntCallOutcome(h, int_data, call_ret_value, "none",
                                <<MkCall(func_value.v, this_value, arg_values, call_ret_value)>>)
            ELSE IntCallOutcome(h, set_variable_value(int_data, call_p.opdata.lhs,
                                                      call_ret_value.value),
                                ecma_make_empty_completion_value, "none",
                                <<MkCall(func_value.v, this_value, arg_values, call_ret_value)>>)
            : call_ret_value \in ecma_op_function_call(func_value.v, this_value, arg_values) }

\* a plausible slip: the function is called before it is known callable
opfunc_call_n_call_unchecked(h, call_p, arg_values, int_data) ==
  LET this_value == IF call_p.this_arg_var_idx_set
                    THEN get_variable_value(int_data, call_p.this_arg_var_idx).value
                    ELSE ecma_op_implicit_this_value(h, int_data.lex_env_p).value
      func_value == call_p.func_value
  IN { IF ecma_is_completion_value_throw(call_ret_value)
       THEN IntCallOutcome(h, int_data, call_ret_value, "none",
                           <<MkCall(func_value.v, this_value, arg_values, call_ret_value)>>)
       ELSE IntCallOutcome(h, set_variable_value(int_data, call_p.opdata.lhs,
                                                 call_ret_value.value),
                           ecma_make_empty_completion_value, "none",
                           <<MkCall(func_value.v, this_value, arg_values, call_ret_value)>>)
       : call_ret_value \in ecma_op_function_call(func_value.v, this_value, arg_values) }

\* run_int_from_pos up to its run_int_loop: the frame it makes
run_int_from_pos(start_pos, this_binding_value, lex_env_p, is_strict, is_eval_code) ==
  LET curr == read_opcode(start_pos)
  IN MkIntData(start_pos + 1, this_binding_value, lex_env_p, is_strict, is_eval_code,
               curr.min, curr.max)

\* the assertions of run_int_from_pos on the opcode it starts at
run_int_from_pos_asserts(start_pos) ==
  LET curr == read_opcode(start_pos)
  IN curr.op_idx = "reg_var_decl" /\ curr.max >= curr.min

\* the strictness of the code of the function
FunctionCodeIsStrict(h, func_obj_p, int_data) == h[func_obj_p].is_strict

\* [[Call]] of a function object made of byte-code, up to the run of its
\* code (ECMA-262 v5, 13.2.1 and 10.4.3): the this binding, the new
\* declarative environment inside [[Scope]], the frame
ecma_op_function_call_code(h, func_obj_p, this_arg_value, int_data) ==
  LET is_strict == FunctionCodeIsStrict(h, func_obj_p, int_data)
      this_binding == IF is_strict
                      THEN Outcome(h, ecma_make_normal_completion_value(this_arg_value),
                                   <<>>, "none")
                      ELSE IF \/ ecma_is_value_undefined(this_arg_value)
                              \/ ecma_is_value_null(this_arg_value)
                      THEN Outcome(h, ecma_make_normal_completion_value(
                                        ObjectValue(GLOBAL_OBJECT)), <<>>, "none")
                      ELSE ecma_op_to_object(h, this_arg_value)
      local_env == ecma_create_decl_lex_env(this_binding.heap, h[func_obj_p].scope)
  IN [heap |-> local_env,
      frame |-> run_int_from_pos(h[func_obj_p].code, this_binding.ret.value,
                                 Len(local_env), is_strict, FALSE),
      fatal |-> IF run_int_from_pos_asserts(h[func_obj_p].code) THEN "none" ELSE "assert"]

\* [[Call]] of a function object made of byte-code after the run of its
\* code: the value of a return completion is the result
ecma_op_function_call_return(completion) ==
  IF ecma_is_completion_value_return(completion)
  THEN ecma_make_normal_completion_value(completion.value)
  ELSE completion

\* the outcome of a handler that is in a [[Call]] of byte-code: the frame of
\* the function is to run, the handler goes on when it has returned
IntEnterOutcome(h, int_data, frame, f) ==
  [heap |-> h, int_data |-> int_data, ret |-> MkCompletion("call", ECMA_SIMPLE_VALUE_EMPTY),
   fatal |-> f, calls |-> <<>>, frame |-> frame]

\* opfunc_call_n after [[Call]] has returned
opfunc_call_n_return(h, call_ret_value, int_data) ==
  LET call_p == int_data.loops[Len(int_data.loops)]
      left == [int_data EXCEPT !.loops = SubSeq(@, 1, Len(@) - 1)]
  IN IF ~ecma_is_completion_value_normal(call_ret_value)
     THEN {IntCallOutcome(h, left, call_ret_value, "none", <<>>)}
     ELSE {IntCallOutcome(h, set_variable_value(left, call_p.opdata.lhs, call_ret_value.value),
                          ecma_make_empty_completion_value, "none", <<>>)}

\* opfunc_call_n after fill_varg_list has gathered the arguments
opfunc_call_n_call(h, call_p, arg_values, int_data) ==
  LET this_value == IF call_p.this_arg_var_idx_set
                    THEN get_variable_value(int_data, call_p.this_arg_var_idx).value
                    ELSE ecma_op_implicit_this_value(h, int_data.lex_env_p).value
      func_value == call_p.func_value
  IN IF ~ecma_op_is_callable(h, func_value)
     THEN {IntCallOutcome(h, int_data,
                          ecma_make_throw_obj_completion_value(ECMA_ERROR_TYPE), "none", <<>>)}
     ELSE IF func_value.v \notin Functions
     THEN LET entered == ecma_op_function_call_code(h, func_value.v, this_value, int_data)
          IN {IntEnterOutcome(entered.heap,
                              [int_data EXCEPT !.loops =
                                 Append(@, [call_p EXCEPT !.arg_values = arg_values])],
                              entered.frame, entered.fatal)}
     ELSE { IF ecma_is_completion_value_throw(call_ret_value)
            THEN IntCallOutcome(h, int_data, call_ret_value, "none",
                                <<MkCall(func_value.v, this_value, arg_values, call_ret_value)>>)
            ELSE IntCallOutcome(h, set_variable_value(int_data, call_p.opdata.lhs,
                                                      call_ret_value.value),
                                ecma_make_empty_completion_value, "none",
                                <<MkCall(func_value.v, this_value, arg_values, call_ret_value)>>)
            : call_ret_value \in ecma_op_function_call(func_value.v, this_value, arg_values) }

\* [[Construct]] of a function object runs user code as [[Call]] does; the
\* call is recorded with the this value empty
ecma_op_function_construct(func_obj_p, args) ==
  ecma_op_function_call(func_obj_p, ECMA_SIMPLE_VALUE_EMPTY, args)

\* opfunc_construct_n after fill_varg_list has gathered the arguments
opfunc_construct_n_construct(h, call_p, arg_values, int_data) ==
  LET constructor_value == call_p.func_value
  IN IF ~ecma_is_constructor(constructor_value)
     THEN {IntCallOutcome(h, int_data,
                          ecma_make_throw_obj_completion_value(ECMA_ERROR_TYPE), "none", <<>>)}
     ELSE { IF ecma_is_completion_value_throw(construction_ret_value)
            THEN IntCallOutcome(h, int_data, construction_ret_value, "none",
                                <<MkCall(constructor_value.v, ECMA_SIMPLE_VALUE_EMPTY,
                                         arg_values, construction_ret_value)>>)
            ELSE IntCallOutcome(h, set_variable_value(int_data, call_p.opdata.lhs,
                                                      construction_ret_value.value),
                                ecma_make_empty_completion_value, "none",
                                <<MkCall(constructor_value.v, ECMA_SIMPLE_VALUE_EMPTY,
                                         arg_values, construction_ret_value)>>)
            : construction_ret_value \in
                ecma_op_function_construct(constructor_value.v, arg_values) }

\* the handler that called fill_varg_list goes on with the arguments
fill_varg_list_done(h, call_p, arg_values, int_data) ==
  IF call_p.opdata.op_idx = "call_n"
  THEN opfunc_call_n_call(h, call_p, arg_values, int_data)
  ELSE opfunc_construct_n_construct(h, call_p, arg_values, int_data)

\* fill_varg_list up to the run_int_loop of its next argument, or to its
\* end when no argument is left
fill_varg_list(h, call_p, int_data) ==
  IF call_p.args_number = 0
  THEN fill_varg_list_done(h, call_p, <<>>, int_data)
  ELSE {IntCallOutcome(h, [int_data EXCEPT !.loops = Append(@, call_p)],
                       ecma_make_empty_completion_value, "none", <<>>)}

\* fill_varg_list after the run_int_loop of an argument
fill_varg_list_return(h, evaluation_completion, int_data) ==
  LET call_p == int_data.loops[Len(int_data.loops)]
      next_opcode == read_opcode(int_data.pos)
      left == [int_data EXCEPT !.loops = SubSeq(@, 1, Len(@) - 1)]
      arg_values == Append(call_p.arg_values,
                           get_variable_value(int_data, next_opcode.data_1).value)
      moved == [int_data EXCEPT !.pos = @ + 1]
  IN IF ~ecma_is_completion_value_normal(evaluation_completion)
     THEN {IntCallOutcome(h, left, evaluation_completion, "none", <<>>)}
     ELSE IF ~(next_opcode.op_idx = "meta" /\ next_opcode.type = "OPCODE_META_TYPE_VARG")
     THEN {IntCallOutcome(h, left, ecma_make_empty_completion_value, "assert", <<>>)}
     ELSE IF Len(arg_values) < call_p.args_number
     THEN {IntCallOutcome(h, [moved EXCEPT !.loops[Len(int_data.loops)].arg_values = arg_values],
                          ecma_make_empty_completion_value, "none", <<>>)}
     ELSE fill_varg_list_done(h, call_p, arg_values,
                              [moved EXCEPT !.loops = SubSeq(@, 1, Len(@) - 1)])

\* opfunc_call_n up to the first run_int_loop of fill_varg_list
opfunc_call_n(h, opdata, int_data) ==
  LET func_name_lit_idx == opdata.name_lit_idx
      args_number_idx == opdata.arg_list
      func_value == get_variable_value(int_data, func_name_lit_idx).value
      moved == [int_data EXCEPT !.pos = @ + 1]
      next_opcode == read_opcode(moved.pos)
      this_arg_var_idx_set == /\ next_opcode.op_idx = "meta"
                              /\ next_opcode.type = "OPCODE_META_TYPE_THIS_ARG"
      call_p == [opdata |-> opdata, lit_oc |-> int_data.pos, func_value |-> func_value,
                 this_arg_var_idx_set |-> this_arg_var_idx_set,
                 this_arg_var_idx |-> IF this_arg_var_idx_set THEN next_opcode.data_1 ELSE 0,
                 args_number |-> IF this_arg_var_idx_set
                                 THEN (args_number_idx - 1) % 256 ELSE args_number_idx,
                 arg_values |-> <<>>]
  IN IF this_arg_var_idx_set
     THEN IF args_number_idx > 0
          THEN fill_varg_list(h, call_p, [moved EXCEPT !.pos = @ + 1])
          ELSE {IntCallOutcome(h, moved, ecma_make_empty_completion_value, "assert", <<>>)}
     ELSE fill_varg_list(h, call_p, moved)

\* opfunc_construct_n up to the first run_int_loop of fill_varg_list
opfunc_construct_n(h, opdata, int_data) ==
  LET constructor_name_lit_idx == opdata.name_lit_idx
      args_number == opdata.arg_list
      constructor_value == get_variable_value(int_data, constructor_name_lit_idx).value
      call_p == [opdata |-> opdata, lit_oc |-> int_data.pos,
                 func_value |-> constructor_value,
                 this_arg_var_idx_set |-> FALSE, this_arg_var_idx |-> 0,
                 args_number |-> args_number, arg_values |-> <<>>]
  IN fill_varg_list(h, call_p, [int_data EXCEPT !.pos = @ + 1])

CallN ==
  /\ Dispatching("call_n")
  /\ Dispatch(opfunc_call_n(heap, read_opcode(frames[Len(frames)].pos), frames[Len(frames)]))

ConstructN ==
  /\ Dispatching("construct_n")
  /\ Dispatch(opfunc_construct_n(heap, read_opcode(frames[Len(frames)].pos),
                                 frames[Len(frames)]))

\* the run_int_loop of an argument has ended: the rest of fill_varg_list
\* and, after the last argument, of the handler that called it
VargReturn ==
  /\ run = "running"
  /\ fatal = "none"
  /\ frames # <<>>
  /\ ~ecma_is_completion_value_normal(ret)
  /\ frames[Len(frames)].loops # <<>>
  /\ frames[Len(frames)].loops[Len(frames[Len(frames)].loops)].opdata.op_idx
       \in {"call_n", "construct_n"}
  /\ \E o \in fill_varg_list_return(heap, run_int_loop_return(ret), frames[Len(frames)]) :
       /\ heap' = o.heap
       /\ frames' = Entered([frames EXCEPT ![Len(frames)] = o.int_data], o)
       /\ ret' = IF IsEntering(o) THEN ecma_make_empty_completion_value ELSE o.ret
       /\ fatal' = IF o.fatal # "none" THEN o.fatal
                   ELSE IF ecma_is_completion_value_normal(o.ret)
                           /\ ~ecma_is_completion_value_empty(o.ret)
                   THEN "assert" ELSE "none"
       /\ op' = MkOpcodeOp(frames[Len(frames)].loops[Len(frames[Len(frames)].loops)].opdata)
       /\ calls' = o.calls
       /\ UNCHANGED <<program, run, result>>

FuncExprN ==
  /\ Dispatching("func_expr_n")
  /\ Dispatch(opfunc_func_expr_n(heap, read_opcode(frames[Len(frames)].pos),
                                 frames[Len(frames)]))

FuncDeclN ==
  /\ Dispatching("func_decl_n")
  /\ Dispatch(opfunc_func_decl_n(heap, read_opcode(frames[Len(frames)].pos),
                                 frames[Len(frames)]))

\* the loop of the run_int_from_pos that [[Call]] made has ended: its
\* assertion on what the loop handed over, the frame is freed, and [[Call]]
\* and opfunc_call_n go on in the frame of the caller
FunctionReturn ==
  /\ run = "running"
  /\ fatal = "none"
  /\ Len(frames) > 1
  /\ frames[Len(frames)].loops = <<>>
  /\ ~ecma_is_completion_value_normal(ret)
  /\ LET completion == run_int_loop_return(ret)
         caller == frames[Len(frames) - 1]
     IN \E o \in opfunc_call_n_return(heap, ecma_op_function_call_return(completion), caller) :
          /\ heap' = o.heap
          /\ frames' = [run_int_from_pos_exit(frames, completion)
                          EXCEPT ![Len(frames) - 1] = o.int_data]
          /\ ret' = o.ret
          /\ fatal' = IF \/ ecma_is_completion_value_normal(completion)
                         \/ ecma_is_completion_value_throw(completion)
                         \/ ecma_is_completion_value_return(completion)
                         \/ ecma_is_completion_value_exit(completion)
                      THEN o.fatal ELSE "assert"
          /\ op' = MkOpcodeOp(caller.loops[Len(caller.loops)].opdata)
          /\ calls' = <<>>
          /\ UNCHANGED <<program, run, result>>

\* the loop of run_int_from_pos has ended: its assertion on what the loop
\* handed over, and the frame is freed
run_int_from_pos_return ==
  /\ run = "running"
  /\ fatal = "none"
  /\ Len(frames) = 1
  /\ frames[1].loops = <<>>
  /\ ~ecma_is_completion_value_normal(ret)
  /\ ret' = run_int_loop_return(ret)
  /\ fatal' = IF \/ ecma_is_completion_value_normal(ret')
                 \/ ecma_is_completion_value_throw(ret')
                 \/ ecma_is_completion_value_return(ret')
                 \/ ecma_is_completion_value_exit(ret')
              THEN "none" ELSE "assert"
  /\ frames' = run_int_from_pos_exit(frames, ret')
  /\ run' = "ended"
  /\ UNCHANGED <<heap, op, calls, program, result>>

\* what run_int returns for an exit completion
run_int_result(run_completion) ==
  IF ecma_is_value_true(run_completion.value) THEN "true" ELSE "false"

\* run_int after run_int_from_pos
run_int_return ==
  /\ run = "ended"
  /\ fatal = "none"
  /\ IF ecma_is_completion_value_exit(ret)
     THEN /\ result' = run_int_result(ret)
          /\ run' = "done"
          /\ fatal' = "none"
     ELSE IF ecma_is_completion_value_throw(ret)
     THEN /\ fatal' = "ERR_UNHANDLED_EXCEPTION"
          /\ UNCHANGED <<run, result>>
     ELSE /\ fatal' = "unreachable"
          /\ UNCHANGED <<run, result>>
  /\ UNCHANGED <<heap, ret, op, calls, program, frames>>

InitInt ==
  /\ heap = <<>>
  /\ ret = ecma_make_empty_completion_value
  /\ op = NoOp
  /\ calls = <<>>
  /\ fatal = "none"
  /\ program = <<>>
  /\ frames = <<>>
  /\ run = "uninit"
  /\ result = "none"

NextInt ==
  \/ init_int(Programs)
  \/ \E config_declarative \in BOOLEAN : run_int(config_declarative)
  \/ Nop
  \/ Assignment
  \/ VarDecl
  \/ Exitval
  \/ ThrowValue
  \/ DeleteVar
  \/ run_int_from_pos_return
  \/ run_int_return

SpecInt == InitInt /\ [][NextInt]_vars

(***************************************************************************)
(* Programs with with-blocks, nested up to MaxWith deep.  The expression   *)
(* of a with is in the first register: undefined, a boolean or the this    *)
(* binding of the frame, that is the Global object.                        *)
(***************************************************************************)
MaxWith == 2

WithStatements(is_strict) ==
  { <<[op_idx |-> "nop"]>>,
    <<[op_idx |-> "this_binding", lhs |-> MAX_REG]>>,
    <<[op_idx |-> "assignment", var_left |-> MAX_REG, type_value_right |-> "OPCODE_ARG_TYPE_STRING", value_right |-> 0],
      [op_idx |-> "prop_setter", obj |-> MIN_REG, prop |-> MAX_REG, rhs |-> MAX_REG]>>,
    <<[op_idx |-> "prop_setter", obj |-> MIN_REG, prop |-> MAX_REG, rhs |-> MIN_REG],
      [op_idx |-> "delete_prop", lhs |-> MAX_REG, base |-> MIN_REG, name |-> MAX_REG]>>,
    <<[op_idx |-> "delete_prop", lhs |-> MIN_REG, base |-> MAX_REG, name |-> MIN_REG]>>,
    <<[op_idx |-> "var_decl", variable_name |-> 0]>>,
    <<[op_idx |-> "throw_value", var |-> MIN_REG]>>,
    <<[op_idx |-> "ret"]>>,
    <<[op_idx |-> "retval", ret_value |-> MIN_REG]>>,
    <<[op_idx |-> "exitval", status_code |-> 1]>> }
  \cup IF is_strict THEN {} ELSE { <<[op_idx |-> "delete_var", lhs |-> MAX_REG, name |-> 0]>> }

\* what is run before a with to make its expression
WithExpressions ==
  { <<>>,
    <<[op_idx |-> "this_binding", lhs |-> MIN_REG]>>,
    <<[op_idx |-> "assignment", var_left |-> MIN_REG, type_value_right |-> "OPCODE_ARG_TYPE_SIMPLE", value_right |-> "ECMA_SIMPLE_VALUE_TRUE"]>> }

\* what is run after the end of a with
AfterWith ==
  { <<>>, <<[op_idx |-> "var_decl", variable_name |-> 1]>> }

RECURSIVE WithBodies(_, _)
WithBodies(is_strict, depth) ==
  IF depth = 0 THEN {<<>>} \cup WithStatements(is_strict)
  ELSE WithBodies(is_strict, 0)
       \cup { before \o <<[op_idx |-> "with", expr |-> MIN_REG]>> \o body
                \o <<[op_idx |-> "meta", type |-> "OPCODE_META_TYPE_END_WITH", data_1 |-> 0, data_2 |-> 0]>>
                \o after :
                before \in WithExpressions, body \in WithBodies(is_strict, depth - 1),
                after \in AfterWith }

WithPrograms ==
  { <<[op_idx |-> "reg_var_decl", min |-> MIN_REG, max |-> MAX_REG]>> \o body
      \o <<[op_idx |-> "exitval", status_code |-> 0]>> :
      body \in WithBodies(FALSE, MaxWith) }
  \cup
  { <<[op_idx |-> "meta", type |-> "OPCODE_META_TYPE_STRICT_CODE", data_1 |-> 0, data_2 |-> 0],
      [op_idx |-> "reg_var_decl", min |-> MIN_REG, max |-> MAX_REG]>> \o body
      \o <<[op_idx |-> "exitval", status_code |-> 0]>> :
      body \in WithBodies(TRUE, MaxWith) }

NextWith ==
  \/ init_int(WithPrograms)
  \/ \E config_declarative \in BOOLEAN : run_int(config_declarative)
  \/ Nop
  \/ Assignment
  \/ VarDecl
  \/ Exitval
  \/ ThrowValue
  \/ DeleteVar
  \/ ThisBinding
  \/ Ret
  \/ Retval
  \/ Meta
  \/ PropSetter
  \/ DeleteProp
  \/ With
  \/ WithReturn
  \/ run_int_from_pos_return
  \/ run_int_return

SpecWith == InitInt /\ [][NextWith]_vars

(***************************************************************************)
(* Calls in a running frame.  The registers of the frame hold what earlier *)
(* opcodes left in them: primitives, the Global object, a function object. *)
(***************************************************************************)
MaxArgs == 2

CallValues ==
  {ECMA_SIMPLE_VALUE_UNDEFINED, NumberValue(NUM_ONE), ObjectValue(GLOBAL_OBJECT)}
    \cup {ObjectValue(func_obj_p) : func_obj_p \in Functions}

\* the opcodes that evaluate an argument into a register
ArgExpressions ==
  { <<>>,
    <<[op_idx |-> "assignment", var_left |-> MAX_REG, type_value_right |-> "OPCODE_ARG_TYPE_SIMPLE", value_right |-> "ECMA_SIMPLE_VALUE_TRUE"]>>,
    <<[op_idx |-> "throw_value", var |-> MAX_REG]>>,
    <<[op_idx |-> "call_n", lhs |-> MAX_REG, name_lit_idx |-> MIN_REG, arg_list |-> 0]>> }

\* n arguments, each followed by the meta that names its register
RECURSIVE ArgLists(_)
ArgLists(n) ==
  IF n = 0 THEN {<<>>}
  ELSE { expr \o <<[op_idx |-> "meta", type |-> "OPCODE_META_TYPE_VARG", data_1 |-> MAX_REG, data_2 |-> 0]>> \o rest :
           expr \in ArgExpressions, rest \in ArgLists(n - 1) }

\* a call, a method call or a construction of the callee in MIN_REG
CallStatements ==
  UNION { { <<[op_idx |-> op_idx, lhs |-> lhs, name_lit_idx |-> MIN_REG, arg_list |-> n]>> \o args :
              op_idx \in {"call_n", "construct_n"}, lhs \in {MIN_REG, MAX_REG},
              args \in ArgLists(n) }
          \cup
          { <<[op_idx |-> "call_n", lhs |-> lhs, name_lit_idx |-> MIN_REG, arg_list |-> n + 1],
              [op_idx |-> "meta", type |-> "OPCODE_META_TYPE_THIS_ARG", data_1 |-> MAX_REG, data_2 |-> 0]>> \o args :
              lhs \in {MIN_REG, MAX_REG}, args \in ArgLists(n) }
          : n \in 0..MaxArgs }

\* the statement alone, or in the block of a with statement
CallPrograms ==
  { body \o <<[op_idx |-> "exitval", status_code |-> 0]>> : body \in CallStatements }
  \cup
  { <<[op_idx |-> "with", expr |-> MAX_REG]>> \o body
      \o <<[op_idx |-> "meta", type |-> "OPCODE_META_TYPE_END_WITH", data_1 |-> 0, data_2 |-> 0],
           [op_idx |-> "exitval", status_code |-> 0]>> : body \in CallStatements }

InitCall ==
  /\ \E config_declarative \in BOOLEAN :
       heap = ecma_op_create_global_environment(ecma_init, GLOBAL_OBJECT, config_declarative)
  /\ ret = ecma_make_empty_completion_value
  /\ op = NoOp
  /\ calls = <<>>
  /\ fatal = "none"
  /\ program \in CallPrograms
  /\ \E callee \in CallValues, other \in CallValues :
       frames = <<[MkIntData(0, ObjectValue(GLOBAL_OBJECT), Len(heap), FALSE, FALSE,
                             MIN_REG, MAX_REG)
                    EXCEPT !.regs = <<callee, other>>]>>
  /\ run = "running"
  /\ result = "none"

NextCall ==
  \/ CallN
  \/ ConstructN
  \/ VargReturn
  \/ Meta
  \/ Assignment
  \/ ThrowValue
  \/ With
  \/ WithReturn
  \/ Exitval
  \/ run_int_from_pos_return
  \/ run_int_return

SpecCall == InitCall /\ [][NextCall]_vars

(***************************************************************************)
(* Programs with functions.  The code of a function follows the opcode     *)
(* that makes it: the meta function_end with the distance to the opcode    *)
(* after the code, the marker of strict code if the function has one, the  *)
(* reg_var_decl of its frame and its body.  A function expression leaves   *)
(* the function in the first register, where the call_n after it finds it. *)
(***************************************************************************)
StrictCodeMarker ==
  [op_idx |-> "meta", type |-> "OPCODE_META_TYPE_STRICT_CODE", data_1 |-> 0, data_2 |-> 0]

FunctionCode(marked, body) ==
  LET code == (IF marked THEN <<StrictCodeMarker>> ELSE <<>>)
              \o <<[op_idx |-> "reg_var_decl", min |-> MIN_REG, max |-> MAX_REG]>> \o body
  IN <<[op_idx |-> "meta", type |-> "OPCODE_META_TYPE_FUNCTION_END",
        data_1 |-> (Len(code) + 1) \div 256, data_2 |-> (Len(code) + 1) % 256]>> \o code

\* the names of a function expression: none, or a literal
FunctionNames == {INVALID_VALUE, 0}

FunctionExpression(name, marked, body) ==
  <<[op_idx |-> "func_expr_n", lhs |-> MIN_REG, name_lit_idx |-> name, arg_list |-> 0]>>
    \o FunctionCode(marked, body)

FunctionDeclaration(name, marked, body) ==
  <<[op_idx |-> "func_decl_n", name_lit_idx |-> name, arg_list |-> 0]>>
    \o FunctionCode(marked, body)

FunctionCall ==
  <<[op_idx |-> "call_n", lhs |-> MAX_REG, name_lit_idx |-> MIN_REG, arg_list |-> 0]>>

\* how the body of a function ends
FunctionEnds ==
  { <<[op_idx |-> "ret"]>>,
    <<[op_idx |-> "retval", ret_value |-> MAX_REG]>>,
    <<[op_idx |-> "throw_value", var |-> MAX_REG]>>,
    <<[op_idx |-> "exitval", status_code |-> 1]>> }

\* the body of a function that makes no function
InnerBodies ==
  FunctionEnds
  \cup { <<[op_idx |-> "this_binding", lhs |-> MAX_REG]>> \o end
         : end \in { <<[op_idx |-> "retval", ret_value |-> MAX_REG]>>,
                     <<[op_idx |-> "throw_value", var |-> MAX_REG]>> } }

\* the body of a function: it may make a function and call it
FunctionBodies ==
  InnerBodies
  \cup { FunctionExpression(name, marked, body) \o FunctionCall \o end
         : name \in FunctionNames, marked \in BOOLEAN, body \in InnerBodies,
           end \in { <<[op_idx |-> "ret"]>>,
                     <<[op_idx |-> "retval", ret_value |-> MAX_REG]>> } }

FunctionStatements ==
  { FunctionExpression(name, marked, body) \o FunctionCall
    : name \in FunctionNames, marked \in BOOLEAN, body \in FunctionBodies }
  \cup { FunctionDeclaration(0, marked, body)
         : marked \in BOOLEAN, body \in InnerBodies }

FunctionPrograms ==
  { marker \o <<[op_idx |-> "reg_var_decl", min |-> MIN_REG, max |-> MAX_REG]>> \o body
      \o <<[op_idx |-> "exitval", status_code |-> 0]>>
    : marker \in {<<>>, <<StrictCodeMarker>>}, body \in FunctionStatements }

NextFunc ==
  \/ init_int(FunctionPrograms)
  \/ \E config_declarative \in BOOLEAN : run_int(config_declarative)
  \/ FuncExprN
  \/ FuncDeclN
  \/ CallN
  \/ FunctionReturn
  \/ ThisBinding
  \/ Ret
  \/ Retval
  \/ ThrowValue
  \/ Exitval
  \/ run_int_from_pos_return
  \/ run_int_return

SpecFunc == InitInt /\ [][NextFunc]_vars

(***************************************************************************)
(* Expressions in a running frame: property access, comparison, typeof.    *)
(* The heap holds, after the Global                                        *)
(* object, whose property q is a function object, and the global           *)
(* environment, an object whose toString is a function object and a Date   *)
(* object whose valueOf is one.                                            *)
(***************************************************************************)
USER_OBJECT == Len(ecma_init) + 2
DATE_OBJECT == Len(ecma_init) + 3

UserHeap ==
  ecma_op_create_global_environment(
    [ecma_init EXCEPT ![GLOBAL_OBJECT].props =
       <<MkDataProperty("q", ObjectValue(11), TRUE, TRUE, FALSE)>>],
    GLOBAL_OBJECT, FALSE)
    \o <<MkObject(2, TRUE, <<MkDataProperty("toString", ObjectValue(11), TRUE, FALSE, TRUE)>>),
         [MkObject(2, TRUE, <<MkDataProperty("valueOf", ObjectValue(11), TRUE, FALSE, TRUE)>>)
           EXCEPT !.class = "Date"]>>

PropValues ==
  {ECMA_SIMPLE_VALUE_UNDEFINED, ECMA_SIMPLE_VALUE_NULL, ECMA_SIMPLE_VALUE_TRUE,
   NumberValue(NUM_ONE), NumberValue(NUM_MONE), NumberValue(NUM_NAN_A),
   StringValue(0), StringValue(1), ObjectValue(GLOBAL_OBJECT),
   ObjectValue(USER_OBJECT), ObjectValue(DATE_OBJECT)}

PropPrograms ==
  { <<opcode, [op_idx |-> "exitval", status_code |-> 0]>> :
      opcode \in UNION {
        { [op_idx |-> "prop_getter", lhs |-> a, obj |-> b, prop |-> c],
          [op_idx |-> "prop_setter", obj |-> b, prop |-> c, rhs |-> a],
          [op_idx |-> "delete_prop", lhs |-> a, base |-> b, name |-> c] }
        : a \in MIN_REG..MAX_REG, b \in MIN_REG..MAX_REG, c \in MIN_REG..MAX_REG } }

RelationalPrograms ==
  { <<[op_idx |-> op_idx, dst |-> MAX_REG, var_left |-> a, var_right |-> b],
      [op_idx |-> "exitval", status_code |-> 0]>> :
      op_idx \in {"less_than", "greater_than", "less_or_equal_than", "greater_or_equal_than"},
      a \in MIN_REG..MAX_REG, b \in MIN_REG..MAX_REG }

\* typeof of a register, or of the identifier p or q
TypeofPrograms ==
  { <<[op_idx |-> "typeof", lhs |-> MAX_REG, obj |-> a],
      [op_idx |-> "exitval", status_code |-> 0]>> : a \in {MIN_REG, MAX_REG, 0, 1} }

\* the operands of typeof: a function object too
TypeofValues == PropValues \cup {ObjectValue(func_obj_p) : func_obj_p \in Functions}

InitProp ==
  /\ heap = UserHeap
  /\ ret = ecma_make_empty_completion_value
  /\ op = NoOp
  /\ calls = <<>>
  /\ fatal = "none"
  /\ program \in PropPrograms \cup RelationalPrograms \cup TypeofPrograms
  /\ \E is_strict \in BOOLEAN,
        first \in (IF program[1].op_idx = "typeof" THEN TypeofValues ELSE PropValues),
        second \in PropValues :
       frames = <<[MkIntData(0, ObjectValue(GLOBAL_OBJECT), Len(ecma_init) + 1, is_strict,
                             FALSE, MIN_REG, MAX_REG)
                    EXCEPT !.regs = <<first, second>>]>>
  /\ run = "running"
  /\ result = "none"

NextProp ==
  \/ PropGetter
  \/ PropSetter
  \/ DeleteProp
  \/ LessThan
  \/ GreaterThan
  \/ LessOrEqualThan
  \/ GreaterOrEqualThan
  \/ Typeof
  \/ Exitval
  \/ run_int_from_pos_return
  \/ run_int_return

SpecProp == InitProp /\ [][NextProp]_vars

(***************************************************************************)
(* The operations on lexical environments, called while a frame runs on    *)
(* one of them; the objects are those the environments are bound to.       *)
(***************************************************************************)
\* var_decl opcodes the frame may execute
MaxVarDecl == 2
\* cells of the heap
MaxHeap == 5

\* the frame executes a var_decl for the literal
ExecuteVarDecl(uid) ==
  /\ Idle
  /\ frames[1].pos < MaxVarDecl
  /\ \E o \in opfunc_var_decl(heap, [op_idx |-> "var_decl", variable_name |-> uid], frames[1]) :
       /\ heap' = o.heap
       /\ frames' = <<o.int_data>>
       /\ ret' = o.ret
       /\ fatal' = o.fatal
       /\ op' = MkOpcodeOp([op_idx |-> "var_decl", variable_name |-> uid])
       /\ calls' = <<>>
       /\ UNCHANGED <<program, run, result>>

\* a declarative environment is made inside the environment of the frame
CreateDeclLexEnv ==
  /\ Idle
  /\ Len(heap) < MaxHeap
  /\ Apply({Outcome(ecma_create_decl_lex_env(heap, frames[1].lex_env_p),
                    ecma_make_empty_completion_value, <<>>, "none")},
           MkOp("create_decl_lex_env", Len(heap) + 1, "",
                ecma_make_empty_property_descriptor, FALSE, ECMA_SIMPLE_VALUE_UNDEFINED))

\* CreateImmutableBinding, called on an environment that has just been made
CreateImmutableBinding(lex_env_p, name) ==
  /\ Idle
  /\ ecma_get_lex_env_type(heap, lex_env_p) = ECMA_LEXICAL_ENVIRONMENT_DECLARATIVE
  /\ heap[lex_env_p].props = <<>>
  /\ Apply({Outcome(ecma_op_create_immutable_binding(heap, lex_env_p, name),
                    ecma_make_empty_completion_value, <<>>, "none")},
           MkOp("create_immutable_binding", lex_env_p, name,
                ecma_make_empty_property_descriptor, FALSE, ECMA_SIMPLE_VALUE_UNDEFINED))

\* InitializeImmutableBinding, called on a binding CreateImmutableBinding made
InitializeImmutableBinding(lex_env_p, name, value) ==
  /\ Idle
  /\ ecma_get_lex_env_type(heap, lex_env_p) = ECMA_LEXICAL_ENVIRONMENT_DECLARATIVE
  /\ ecma_find_named_property(heap, lex_env_p, name) # NoProperty
  /\ ~ecma_find_named_property(heap, lex_env_p, name).writable
  /\ Apply(ecma_op_initialize_immutable_binding(heap, lex_env_p, name, value),
           MkOp("initialize_immutable_binding", lex_env_p, name,
                ecma_make_empty_property_descriptor, FALSE, value))

DeleteBinding(lex_env_p, name) ==
  /\ Idle
  /\ Apply(ecma_op_delete_binding(heap, lex_env_p, name),
           MkOp("delete_binding", lex_env_p, name,
                ecma_make_empty_property_descriptor, FALSE, ECMA_SIMPLE_VALUE_UNDEFINED))

\* GetBindingValue; on a declarative environment the binding exists
GetBindingValue(lex_env_p, name, is_strict) ==
  /\ Idle
  /\ ecma_get_lex_env_type(heap, lex_env_p) = ECMA_LEXICAL_ENVIRONMENT_DECLARATIVE
       => ecma_find_named_property(heap, lex_env_p, name) # NoProperty
  /\ Apply(ecma_op_get_binding_value(heap, lex_env_p, name, is_strict),
           MkOp("get_binding_value", lex_env_p, name,
                ecma_make_empty_property_descriptor, is_strict, ECMA_SIMPLE_VALUE_UNDEFINED))

\* SetMutableBinding; on a declarative environment the binding exists
SetMutableBinding(lex_env_p, name, value, is_strict) ==
  /\ Idle
  /\ ecma_get_lex_env_type(heap, lex_env_p) = ECMA_LEXICAL_ENVIRONMENT_DECLARATIVE
       => ecma_find_named_property(heap, lex_env_p, name) # NoProperty
  /\ Apply(ecma_op_set_mutable_binding(heap, lex_env_p, name, value, is_strict),
           MkOp("set_mutable_binding", lex_env_p, name,
                ecma_make_empty_property_descriptor, is_strict, value))

\* a delete_var is executed in the frame
ExecuteDeleteVar(uid) ==
  /\ Idle
  /\ frames[1].pos < MaxVarDecl
  /\ \E o \in opfunc_delete_var(heap, [op_idx |-> "delete_var", lhs |-> MAX_REG, name |-> uid],
                                 frames[1]) :
       /\ heap' = o.heap
       /\ frames' = <<o.int_data>>
       /\ ret' = o.ret
       /\ fatal' = o.fatal
       /\ op' = MkOpcodeOp([op_idx |-> "delete_var", lhs |-> MAX_REG, name |-> uid])
       /\ calls' = <<>>
       /\ UNCHANGED <<program, run, result>>

\* the descriptors of the calls on the binding object
EnvDescriptors ==
  { MkDescriptor(NumberValue(NUM_PZERO), "true", "true", "true", NoPointer, NoPointer),
    MkDescriptor(NoValue, "false", "absent", "absent", NoPointer, NoPointer),
    MkDescriptor(NoValue, "absent", "absent", "false", NoPointer, NoPointer),
    MkDescriptor(NoValue, "absent", "absent", "absent", 11, NoPointer),
    MkDescriptor(NoValue, "absent", "true", "absent", NoPointer, NULL) }

LexicalEnvironments == {e \in DOMAIN heap : ecma_is_lexical_environment(heap, e)}
BindingNames == {"p", "q"}

\* 1 is the Global object, 2 its prototype, 3 the object-bound environment
\* of 1 and 4 a declarative environment inside 3; the frame runs on 3 or 4
InitEnv ==
  /\ \E extensible \in BOOLEAN, inherited \in {<<>>, <<MkDataProperty("q", NumberValue(NUM_ONE), TRUE, FALSE, TRUE)>>} :
       heap = ecma_create_decl_lex_env(
                ecma_create_object_lex_env(
                  <<MkObject(2, extensible, <<>>), MkObject(NULL, TRUE, inherited)>>,
                  NULL, 1, FALSE),
                3)
  /\ \E lex_env_p \in {3, 4}, is_eval_code \in BOOLEAN :
       frames = <<MkIntData(0, ObjectValue(1), lex_env_p, FALSE, is_eval_code,
                            MIN_REG, MAX_REG)>>
  /\ ret = ecma_make_empty_completion_value
  /\ op = NoOp
  /\ calls = <<>>
  /\ fatal = "none"
  /\ program = <<>>
  /\ run = "uninit"
  /\ result = "none"

NextEnv ==
  \/ \E desc \in EnvDescriptors, is_throw \in BOOLEAN :
       DefineOwnProperty(1, "p", desc, is_throw)
  \/ \E is_throw \in BOOLEAN : Put(1, "p", NumberValue(NUM_NZERO), is_throw)
  \/ \E is_throw \in BOOLEAN : Delete(1, "p", is_throw)
  \/ \E uid \in {0, 1} : ExecuteVarDecl(uid)
  \/ CreateDeclLexEnv
  \/ \E lex_env_p \in LexicalEnvironments : CreateImmutableBinding(lex_env_p, "p")
  \/ \E lex_env_p \in LexicalEnvironments :
       InitializeImmutableBinding(lex_env_p, "p", ObjectValue(11))
  \/ \E lex_env_p \in LexicalEnvironments, name \in BindingNames :
       DeleteBinding(lex_env_p, name)
  \/ Return

SpecEnv == InitEnv /\ [][NextEnv]_vars

\* the environment record operations, called in any order on the environments
\* of the frame
NextBinding ==
  \/ \E desc \in EnvDescriptors, is_throw \in BOOLEAN :
       DefineOwnProperty(1, "p", desc, is_throw)
  \/ \E uid \in {0, 1} : ExecuteVarDecl(uid)
  \/ \E lex_env_p \in LexicalEnvironments : CreateImmutableBinding(lex_env_p, "p")
  \/ \E lex_env_p \in LexicalEnvironments :
       InitializeImmutableBinding(lex_env_p, "p", ObjectValue(11))
  \/ \E lex_env_p \in LexicalEnvironments, name \in BindingNames :
       DeleteBinding(lex_env_p, name)
  \/ \E lex_env_p \in LexicalEnvironments, is_strict \in BOOLEAN :
       GetBindingValue(lex_env_p, "p", is_strict)
  \/ \E lex_env_p \in LexicalEnvironments, is_strict \in BOOLEAN :
       SetMutableBinding(lex_env_p, "p", NumberValue(NUM_ONE), is_strict)
  \/ \E uid \in {0, 1} : ExecuteDeleteVar(uid)
  \/ Return

SpecBinding == InitEnv /\ [][NextBinding]_vars

(***************************************************************************)
(* Callers that make several calls in a row on the same object, as the     *)
(* code of a program does: a call that throws or ends the process ends the *)
(* row.  steps holds the completion values of the calls made.              *)
(***************************************************************************)
MkRowOp(name, obj_p, pname, is_throw, value, steps) ==
  [name |-> name, obj |-> obj_p, pname |-> pname,
   desc |-> ecma_make_empty_property_descriptor, is_throw |-> is_throw,
   value |-> value, steps |-> steps]

\* the row is over after this call
EndsRow(o) == o.fatal # "none" \/ ecma_is_completion_value_throw(o.ret)

\* [[Put]], then [[Delete]], then [[Get]]
PutDeleteGet(obj_p, name, value, is_throw) ==
  /\ Idle
  /\ \E o1 \in ecma_op_general_object_put(heap, obj_p, name, value, is_throw) :
       IF EndsRow(o1)
       THEN Apply({o1}, MkRowOp("put_delete_get", obj_p, name, is_throw, value, <<o1.ret>>))
       ELSE \E o2 \in ecma_op_general_object_delete(o1.heap, obj_p, name, is_throw) :
              IF EndsRow(o2)
              THEN Apply({[o2 EXCEPT !.calls = o1.calls]},
                         MkRowOp("put_delete_get", obj_p, name, is_throw, value,
                                 <<o1.ret, o2.ret>>))
              ELSE \E o3 \in ecma_op_general_object_get(o2.heap, obj_p, name) :
                     Apply({[o3 EXCEPT !.calls = o1.calls \o o3.calls]},
                           MkRowOp("put_delete_get", obj_p, name, is_throw, value,
                                   <<o1.ret, o2.ret, o3.ret>>))

\* [[DefineOwnProperty]] of a writable, enumerable and configurable value,
\* then [[Get]]
DefineGet(obj_p, name, value, is_throw) ==
  LET desc == [ecma_make_empty_property_descriptor EXCEPT
                 !.is_value_defined = TRUE, !.value = value,
                 !.is_writable_defined = TRUE, !.is_writable = TRUE,
                 !.is_enumerable_defined = TRUE, !.is_enumerable = TRUE,
                 !.is_configurable_defined = TRUE, !.is_configurable = TRUE]
  IN /\ Idle
     /\ \E o1 \in ecma_op_general_object_define_own_property(heap, obj_p, name, desc,
                                                             is_throw) :
          IF EndsRow(o1)
          THEN Apply({o1}, MkRowOp("define_get", obj_p, name, is_throw, value, <<o1.ret>>))
          ELSE \E o2 \in ecma_op_general_object_get(o1.heap, obj_p, name) :
                 Apply({o2}, MkRowOp("define_get", obj_p, name, is_throw, value,
                                     <<o1.ret, o2.ret>>))

\* the values of the rows
RowValues == InputValues \cup {NumberValue(NUM_NAN_A), NumberValue(NUM_NAN_B)}

NextRows ==
  \/ \E desc \in EnvDescriptors, is_throw \in BOOLEAN :
       DefineOwnProperty(1, "p", desc, is_throw)
  \/ \E value \in RowValues, is_throw \in BOOLEAN : PutDeleteGet(1, "p", value, is_throw)
  \/ \E value \in RowValues, is_throw \in BOOLEAN : DefineGet(1, "p", value, is_throw)
  \/ Return

SpecRows == InitObjects /\ [][NextRows]_vars

(***************************************************************************)
(* Property descriptors and objects: ToPropertyDescriptor reads the fields *)
(* of a descriptor from the properties of an object, FromPropertyDescriptor*)
(* makes an object from a descriptor.                                      *)
(***************************************************************************)
\* ToBoolean
ecma_op_to_boolean(value) ==
  IF ecma_is_value_boolean(value)
  THEN IF ecma_is_value_true(value) THEN ECMA_SIMPLE_VALUE_TRUE ELSE ECMA_SIMPLE_VALUE_FALSE
  ELSE IF ecma_is_value_undefined(value) \/ ecma_is_value_null(value)
  THEN ECMA_SIMPLE_VALUE_FALSE
  ELSE IF ecma_is_value_number(value)
  THEN IF ecma_number_is_nan(value.v) \/ ecma_number_is_zero(value.v)
       THEN ECMA_SIMPLE_VALUE_FALSE ELSE ECMA_SIMPLE_VALUE_TRUE
  ELSE IF ecma_is_value_string(value)
  THEN IF ecma_get_string_from_value(value) = ""
       THEN ECMA_SIMPLE_VALUE_FALSE ELSE ECMA_SIMPLE_VALUE_TRUE
  ELSE ECMA_SIMPLE_VALUE_TRUE

\* the heap with a new object whose prototype is the Object prototype; the
\* object is the last cell
ecma_op_create_object_object_noarg(h) == Append(h, MkObject(2, TRUE, <<>>))

\* the outcome of a step of ToPropertyDescriptor: the descriptor so far
DescOutcome(h, r, c, f, prop_desc) ==
  [heap |-> h, ret |-> r, calls |-> c, fatal |-> f, desc |-> prop_desc]

\* the descriptor with the field of the given name read from its value
ToPropertyDescriptorField(h, prop_desc, name, prop_value) ==
  CASE name = "enumerable" ->
         [ret |-> ecma_make_empty_completion_value,
          desc |-> [prop_desc EXCEPT !.is_enumerable_defined = TRUE,
                                     !.is_enumerable =
                                        ecma_is_value_true(ecma_op_to_boolean(prop_value))]]
    [] name = "configurable" ->
         [ret |-> ecma_make_empty_completion_value,
          desc |-> [prop_desc EXCEPT !.is_configurable_defined = TRUE,
                                     !.is_configurable =
                                        ecma_is_value_true(ecma_op_to_boolean(prop_value))]]
    [] name = "value" ->
         [ret |-> ecma_make_empty_completion_value,
          desc |-> [prop_desc EXCEPT !.is_value_defined = TRUE, !.value = prop_value]]
    [] name = "writable" ->
         [ret |-> ecma_make_empty_completion_value,
          desc |-> [prop_desc EXCEPT !.is_writable_defined = TRUE,
                                     !.is_writable =
                                        ecma_is_value_true(ecma_op_to_boolean(prop_value))]]
    [] name = "get" ->
         IF ~ecma_op_is_callable(h, prop_value) /\ ~ecma_is_value_undefined(prop_value)
         THEN [ret |-> ecma_make_throw_obj_completion_value(ECMA_ERROR_TYPE),
               desc |-> prop_desc]
         ELSE [ret |-> ecma_make_empty_completion_value,
               desc |-> [prop_desc EXCEPT !.is_get_defined = TRUE,
                                          !.get_p = IF ecma_is_value_undefined(prop_value)
                                                    THEN NULL ELSE prop_value.v]]
    [] OTHER ->
         IF ~ecma_op_is_callable(h, prop_value) /\ ~ecma_is_value_undefined(prop_value)
         THEN [ret |-> ecma_make_throw_obj_completion_value(ECMA_ERROR_TYPE),
               desc |-> prop_desc]
         ELSE [ret |-> ecma_make_empty_completion_value,
               desc |-> [prop_desc EXCEPT !.is_set_defined = TRUE,
                                          !.set_p = IF ecma_is_value_undefined(prop_value)
                                                    THEN NULL ELSE prop_value.v]]

\* a plausible slip: the properties the object inherits are not looked at
ToPropertyDescriptorHasField_own(h, obj_p, name) ==
  ecma_op_general_object_get_own_property(h, obj_p, name) # NoProperty

\* the object has a property of the name, its own or inherited
ToPropertyDescriptorHasField(h, obj_p, name) ==
  ecma_op_general_object_get_property(h, obj_p, name) # NoProperty

\* steps 3 to 8 of ToPropertyDescriptor, each for one name: when the object
\* has the property, [[Get]] and the field
ToPropertyDescriptorStep(so_far, obj_p, name) ==
  IF ~ToPropertyDescriptorHasField(so_far.heap, obj_p, name)
  THEN {so_far}
  ELSE { IF o.fatal # "none" \/ ecma_is_completion_value_throw(o.ret)
         THEN DescOutcome(o.heap, o.ret, so_far.calls \o o.calls, o.fatal, so_far.desc)
         ELSE LET field == ToPropertyDescriptorField(o.heap, so_far.desc, name, o.ret.value)
              IN DescOutcome(o.heap, field.ret, so_far.calls \o o.calls, "none", field.desc)
         : o \in ecma_op_general_object_get(so_far.heap, obj_p, name) }

\* the names in the order of the steps
ToPropertyDescriptorNames ==
  <<"enumerable", "configurable", "value", "writable", "get", "set">>

RECURSIVE ToPropertyDescriptorSteps(_, _, _)
ToPropertyDescriptorSteps(so_far, obj_p, step) ==
  IF step > Len(ToPropertyDescriptorNames)
        \/ so_far.fatal # "none" \/ ecma_is_completion_value_throw(so_far.ret)
  THEN {so_far}
  ELSE UNION { ToPropertyDescriptorSteps(next, obj_p, step + 1)
               : next \in ToPropertyDescriptorStep(so_far, obj_p,
                                                   ToPropertyDescriptorNames[step]) }

\* ToPropertyDescriptor: the completion and, in desc, what is written to
\* out_prop_desc_p
ecma_op_to_property_descriptor(h, obj_value, out_prop_desc) ==
  \* 1.
  IF ~ecma_is_value_object(obj_value)
  THEN {DescOutcome(h, ecma_make_throw_obj_completion_value(ECMA_ERROR_TYPE), <<>>, "none",
                    out_prop_desc)}
  ELSE LET obj_p == obj_value.v
           \* 2.
           prop_desc == ecma_make_empty_property_descriptor
       IN { \* 9.
            IF /\ o.fatal = "none"
               /\ ~ecma_is_completion_value_throw(o.ret)
               /\ o.desc.is_get_defined \/ o.desc.is_set_defined
               /\ o.desc.is_value_defined \/ o.desc.is_writable_defined
            THEN [o EXCEPT !.ret = ecma_make_throw_obj_completion_value(ECMA_ERROR_TYPE)]
            ELSE o
            : o \in ToPropertyDescriptorSteps(
                      DescOutcome(h, ecma_make_empty_completion_value, <<>>, "none", prop_desc),
                      obj_p, 1) }

\* a plausible slip: the shape is chosen from the argument
FromPropertyDescriptorLocal_of_argument(src_prop_desc) ==
  [src_prop_desc EXCEPT !.is_enumerable_defined = TRUE, !.is_enumerable = TRUE,
                        !.is_configurable_defined = TRUE, !.is_configurable = TRUE,
                        !.is_writable = TRUE]

\* the descriptor FromPropertyDescriptor defines the properties of the new
\* object with: it is made here and all its attributes are true
FromPropertyDescriptorLocal(src_prop_desc) ==
  [ecma_make_empty_property_descriptor EXCEPT
     !.is_value_defined = TRUE,
     !.is_writable_defined = TRUE, !.is_writable = TRUE,
     !.is_enumerable_defined = TRUE, !.is_enumerable = TRUE,
     !.is_configurable_defined = TRUE, !.is_configurable = TRUE]

\* [[DefineOwnProperty]] of FromPropertyDescriptor and the assertion on its
\* completion
FromPropertyDescriptorDefine(so_far, obj_p, name, prop_desc) ==
  IF so_far.fatal # "none" THEN {so_far}
  ELSE { Outcome(o.heap, o.ret, so_far.calls \o o.calls,
                 IF o.fatal # "none" THEN o.fatal
                 ELSE IF o.ret = ecma_make_simple_completion_value(ECMA_SIMPLE_VALUE_TRUE)
                 THEN "none" ELSE "assert")
         : o \in ecma_op_general_object_define_own_property(so_far.heap, obj_p, name,
                                                            prop_desc, FALSE) }

\* the sequence of [[DefineOwnProperty]] calls of FromPropertyDescriptor
RECURSIVE FromPropertyDescriptorDefines(_, _, _, _)
FromPropertyDescriptorDefines(so_far, obj_p, fields, prop_desc) ==
  IF fields = <<>> THEN {so_far}
  ELSE UNION { FromPropertyDescriptorDefines(next, obj_p, Tail(fields), prop_desc)
               : next \in FromPropertyDescriptorDefine(
                            so_far, obj_p, Head(fields)[1],
                            [prop_desc EXCEPT !.value = Head(fields)[2]]) }

\* FromPropertyDescriptor: the object is the last cell of the heap
ecma_op_from_property_descriptor(h, src_prop_desc) ==
  LET \* 2.
      created == ecma_op_create_object_object_noarg(h)
      obj_p == Len(created)
      prop_desc == FromPropertyDescriptorLocal(src_prop_desc)
      boolean(flag) == IF flag THEN ECMA_SIMPLE_VALUE_TRUE ELSE ECMA_SIMPLE_VALUE_FALSE
      function(func_p) == IF func_p = NULL THEN ECMA_SIMPLE_VALUE_UNDEFINED
                          ELSE ObjectValue(func_p)
      shape == \* 3.
               IF prop_desc.is_value_defined \/ prop_desc.is_writable_defined
               THEN <<<<"value", src_prop_desc.value>>,
                      <<"writable", boolean(src_prop_desc.is_writable)>>>>
               \* 4.
               ELSE <<<<"get", function(src_prop_desc.get_p)>>,
                      <<"set", function(src_prop_desc.set_p)>>>>
      fields == shape \o <<<<"enumerable", boolean(src_prop_desc.is_enumerable)>>,
                           <<"configurable", boolean(src_prop_desc.is_configurable)>>>>
      asserted == IF prop_desc.is_value_defined \/ prop_desc.is_writable_defined
                  THEN prop_desc.is_value_defined /\ prop_desc.is_writable_defined
                  ELSE prop_desc.is_get_defined /\ prop_desc.is_set_defined
  IN { Outcome(o.heap, ecma_make_normal_completion_value(ObjectValue(obj_p)), o.calls,
               IF asserted THEN o.fatal ELSE "assert")
       : o \in FromPropertyDescriptorDefines(
                 Outcome(created, ecma_make_empty_completion_value, <<>>, "none"),
                 obj_p, fields, prop_desc) }

\* objects of the heap in the conversions of descriptors
MaxObjects == 3

\* the values of the properties of the object a descriptor is read from:
\* a boolean, undefined, a function object, or NoValue for accessor
\* properties whose getter is a function object
FieldValues ==
  {ECMA_SIMPLE_VALUE_TRUE, ECMA_SIMPLE_VALUE_UNDEFINED, ObjectValue(11), NoValue}

\* properties of the given names, in the order of the steps
FieldProperties(names, value) ==
  LET chosen == SelectSeq(ToPropertyDescriptorNames, LAMBDA name : name \in names)
  IN [i \in 1..Len(chosen) |->
        IF value = NoValue
        THEN MkAccessorProperty(chosen[i], 11, NULL, TRUE, TRUE)
        ELSE MkDataProperty(chosen[i], value, TRUE, TRUE, TRUE)]

FieldNames == { ToPropertyDescriptorNames[i] : i \in 1..Len(ToPropertyDescriptorNames) }

\* object 1 has some of the properties and inherits others from object 2,
\* the Object prototype
InitDesc ==
  /\ \E own \in SUBSET FieldNames, value \in FieldValues :
       \E inherited \in SUBSET (FieldNames \ own) :
         heap = <<MkObject(2, TRUE, FieldProperties(own, value)),
                  MkObject(NULL, TRUE, FieldProperties(inherited, value))>>
  /\ ret = ecma_make_empty_completion_value
  /\ op = NoOp
  /\ calls = <<>>
  /\ fatal = "none"
  /\ program = <<>>
  /\ frames = <<>>
  /\ run = "uninit"
  /\ result = "none"

\* what the caller has in the descriptor before ToPropertyDescriptor
OutPropDesc == ecma_make_empty_property_descriptor

ToPropertyDescriptor(obj_value) ==
  /\ Idle
  /\ \E o \in ecma_op_to_property_descriptor(heap, obj_value, OutPropDesc) :
       Apply({Outcome(o.heap, o.ret, o.calls, o.fatal)},
             MkOp("to_property_descriptor", NULL, "", o.desc, FALSE, obj_value))

FromPropertyDescriptor(src_prop_desc) ==
  /\ Idle
  /\ Len(heap) < MaxObjects
  /\ Apply(ecma_op_from_property_descriptor(heap, src_prop_desc),
           MkOp("from_property_descriptor", NULL, "", src_prop_desc, FALSE,
                ECMA_SIMPLE_VALUE_UNDEFINED))

NextDesc ==
  \/ \E obj_value \in {ObjectValue(1), ObjectValue(Len(heap)), NumberValue(NUM_ONE),
                        ECMA_SIMPLE_VALUE_UNDEFINED} : ToPropertyDescriptor(obj_value)
  \/ \E src_prop_desc \in EnvDescriptors : FromPropertyDescriptor(src_prop_desc)
  \/ Return

SpecDesc == InitDesc /\ [][NextDesc]_vars

(***************************************************************************)
(* SameValue on two values.  The values are the simple values, the doubles *)
(* of the model, strings held by literals and by magic strings, two of     *)
(* them with the same characters, and objects.                             *)
(***************************************************************************)
SameValues ==
  {ECMA_SIMPLE_VALUE_UNDEFINED, ECMA_SIMPLE_VALUE_NULL, ECMA_SIMPLE_VALUE_TRUE,
   ECMA_SIMPLE_VALUE_FALSE,
   NumberValue(NUM_PZERO), NumberValue(NUM_NZERO), NumberValue(NUM_NAN_A),
   NumberValue(NUM_NAN_B), NumberValue(NUM_ONE), NumberValue(NUM_MONE),
   StringValue(0), StringValue(1), StringValue(3),
   ecma_get_magic_string("undefined"), ecma_get_magic_string("object"),
   ObjectValue(GLOBAL_OBJECT), ObjectValue(USER_OBJECT), ObjectValue(DATE_OBJECT)}

\* the two arguments of a call of SameValue
MkSameOp(name, x, y) ==
  [name |-> name, obj |-> NULL, pname |-> "", desc |-> ecma_make_empty_property_descriptor,
   is_throw |-> FALSE, value |-> x, other |-> y]

InitSame ==
  /\ heap = UserHeap
  /\ ret = ecma_make_empty_completion_value
  /\ \E x \in SameValues, y \in SameValues : op = MkSameOp("same_value_arguments", x, y)
  /\ calls = <<>>
  /\ fatal = "none"
  /\ program = <<>>
  /\ frames = <<>>
  /\ run = "uninit"
  /\ result = "none"

CallSameValue ==
  /\ fatal = "none"
  /\ op.name = "same_value_arguments"
  /\ Apply({Outcome(heap,
                    ecma_make_simple_completion_value(
                      IF ecma_op_same_value(op.value, op.other)
                      THEN ECMA_SIMPLE_VALUE_TRUE ELSE ECMA_SIMPLE_VALUE_FALSE),
                    <<>>, "none")},
           MkSameOp("same_value", op.value, op.other))

NextSame == CallSameValue

SpecSame == InitSame /\ [][NextSame]_vars

(***************************************************************************)
(* Object literals.  obj_decl runs run_int_loop once for each property     *)
(* entry; the locals it keeps over the loops are a record on the loops of  *)
(* the frame.                                                              *)
(***************************************************************************)
\* get_variable_value for any idx operand: a register, or the identifier
\* the literal names, read through the environments of the frame
get_variable_value_or_identifier(h, int_data, var_idx) ==
  IF is_reg_variable(int_data, var_idx)
  THEN {Outcome(h, get_variable_value(int_data, var_idx), <<>>, "none")}
  ELSE LET var_name_string_p ==
             ecma_new_ecma_string_from_lit_index(deserialize_lit_id_by_uid(var_idx, int_data.pos))
           ref_base_lex_env_p ==
             ecma_op_resolve_reference_base(h, int_data.lex_env_p, var_name_string_p)
       IN IF ref_base_lex_env_p = NULL
          THEN {Outcome(h, ecma_make_throw_obj_completion_value(ECMA_ERROR_REFERENCE),
                        <<>>, "none")}
          ELSE ecma_op_get_value_lex_env_base(h, ref_base_lex_env_p, var_name_string_p,
                                              int_data.is_strict)

\* a plausible slip: the data property of an entry is not made writable
ObjDeclPropertyDescriptor_not_writable(type, value_for_prop_desc) ==
  LET prop_desc == [ecma_make_empty_property_descriptor
                      EXCEPT !.is_enumerable_defined = TRUE, !.is_enumerable = TRUE,
                             !.is_configurable_defined = TRUE, !.is_configurable = TRUE]
  IN IF type = "OPCODE_META_TYPE_VARG_PROP_DATA"
     THEN [prop_desc EXCEPT !.is_value_defined = TRUE, !.value = value_for_prop_desc]
     ELSE IF type = "OPCODE_META_TYPE_VARG_PROP_GETTER"
     THEN [prop_desc EXCEPT !.is_get_defined = TRUE, !.get_p = value_for_prop_desc.v]
     ELSE [prop_desc EXCEPT !.is_set_defined = TRUE, !.set_p = value_for_prop_desc.v]

\* the descriptor obj_decl builds for an entry of the kind
ObjDeclPropertyDescriptor(type, value_for_prop_desc) ==
  LET prop_desc == [ecma_make_empty_property_descriptor
                      EXCEPT !.is_enumerable_defined = TRUE, !.is_enumerable = TRUE,
                             !.is_configurable_defined = TRUE, !.is_configurable = TRUE]
  IN IF type = "OPCODE_META_TYPE_VARG_PROP_DATA"
     THEN [prop_desc EXCEPT !.is_value_defined = TRUE, !.value = value_for_prop_desc,
                            !.is_writable_defined = TRUE, !.is_writable = TRUE]
     ELSE IF type = "OPCODE_META_TYPE_VARG_PROP_GETTER"
     THEN [prop_desc EXCEPT !.is_get_defined = TRUE, !.get_p = value_for_prop_desc.v]
     ELSE [prop_desc EXCEPT !.is_set_defined = TRUE, !.set_p = value_for_prop_desc.v]

\* whether the entry is one the front end has to refuse as an early error
ObjDeclIsThrowSyntaxError(type, previous_p, is_strict) ==
  LET is_previous_undefined == previous_p = NoProperty
      is_previous_data_desc == /\ ~is_previous_undefined
                               /\ previous_p.type = ECMA_PROPERTY_NAMEDDATA
      is_previous_accessor_desc == /\ ~is_previous_undefined
                                   /\ previous_p.type = ECMA_PROPERTY_NAMEDACCESSOR
  IN IF type = "OPCODE_META_TYPE_VARG_PROP_DATA"
     THEN /\ ~is_previous_undefined
          /\ ((is_previous_data_desc /\ is_strict) \/ is_previous_accessor_desc)
     ELSE ~is_previous_undefined /\ is_previous_data_desc

\* the end of opfunc_obj_decl, after its loop over the entries
opfunc_obj_decl_end(h, obj_decl_p, completion, int_data, c) ==
  IF ecma_is_completion_value_empty(completion)
  THEN IntCallOutcome(h, set_variable_value(int_data, obj_decl_p.opdata.lhs,
                                            ObjectValue(obj_decl_p.obj_p)),
                      ecma_make_empty_completion_value, "none", c)
  ELSE IntCallOutcome(h, int_data, completion, "none", c)

\* the loop of opfunc_obj_decl at its test: the run_int_loop of the next
\* entry, or the end of the handler when no entry is left
opfunc_obj_decl_loop(h, obj_decl_p, int_data, c) ==
  IF obj_decl_p.prop_index < obj_decl_p.args_number
  THEN IntCallOutcome(h, [int_data EXCEPT !.loops = Append(@, obj_decl_p)],
                      ecma_make_empty_completion_value, "none", c)
  ELSE opfunc_obj_decl_end(h, obj_decl_p, ecma_make_empty_completion_value, int_data, c)

\* opfunc_obj_decl up to the run_int_loop of its first entry
opfunc_obj_decl(h, opdata, int_data) ==
  LET lhs_var_idx == opdata.lhs
      args_number == opdata.list
      obj_lit_oc == int_data.pos
      created == ecma_op_create_object_object_noarg(h)
      obj_decl_p == [opdata |-> opdata, lit_oc |-> obj_lit_oc, obj_p |-> Len(created),
                     args_number |-> args_number, prop_index |-> 0]
  IN {opfunc_obj_decl_loop(created, obj_decl_p, [int_data EXCEPT !.pos = @ + 1], <<>>)}

\* the entry whose value has been read: the name, the descriptor, the
\* definition of the property.  A throw of the conversion of the name is
\* written to ret_value only: the loop goes on with the next entry
opfunc_obj_decl_define(value_read, obj_decl_p, type, prop_name_var_idx, int_data) ==
  LET prop_name_value == get_variable_value(int_data, prop_name_var_idx).value
      next_p == [obj_decl_p EXCEPT !.prop_index = @ + 1]
      moved == [int_data EXCEPT !.pos = @ + 1]
  IN UNION {
       IF prop_name_str_value.fatal # "none"
       THEN {IntCallOutcome(prop_name_str_value.heap, int_data,
                            ecma_make_empty_completion_value, prop_name_str_value.fatal,
                            value_read.calls \o prop_name_str_value.calls)}
       ELSE IF ecma_is_completion_value_throw(prop_name_str_value.ret)
       THEN {opfunc_obj_decl_loop(prop_name_str_value.heap, next_p, moved,
                                  value_read.calls \o prop_name_str_value.calls)}
       ELSE LET hs == prop_name_str_value.heap
                prop_name_string_p == prop_name_str_value.ret.value
                previous_p == ecma_op_general_object_get_own_property(
                                hs, obj_decl_p.obj_p, prop_name_string_p)
                is_throw_syntax_error ==
                  ObjDeclIsThrowSyntaxError(type, previous_p, int_data.is_strict)
                prop_desc == ObjDeclPropertyDescriptor(type, value_read.ret.value)
                defined ==
                  UNION { IF define_prop_completion.fatal # "none"
                          THEN {IntCallOutcome(define_prop_completion.heap, int_data,
                                               ecma_make_empty_completion_value,
                                               define_prop_completion.fatal,
                                               value_read.calls \o prop_name_str_value.calls)}
                          ELSE IF define_prop_completion.ret \notin
                                    {ecma_make_simple_completion_value(ECMA_SIMPLE_VALUE_TRUE),
                                     ecma_make_simple_completion_value(ECMA_SIMPLE_VALUE_FALSE)}
                          THEN {IntCallOutcome(define_prop_completion.heap, int_data,
                                               ecma_make_empty_completion_value, "assert",
                                               value_read.calls \o prop_name_str_value.calls)}
                          ELSE {opfunc_obj_decl_loop(
                                  define_prop_completion.heap, next_p, moved,
                                  value_read.calls \o prop_name_str_value.calls)}
                          : define_prop_completion \in
                              ecma_op_general_object_define_own_property(
                                hs, obj_decl_p.obj_p, prop_name_string_p, prop_desc, FALSE) }
            IN IF is_throw_syntax_error
               THEN {IntCallOutcome(hs, int_data, ecma_make_empty_completion_value, "assert",
                                    value_read.calls \o prop_name_str_value.calls)}
                    \cup defined
               ELSE defined
       : prop_name_str_value \in ecma_op_to_string(value_read.heap, prop_name_value) }

\* opfunc_obj_decl after the run_int_loop of an entry
opfunc_obj_decl_return(h, evaluate_prop_completion, int_data) ==
  LET obj_decl_p == int_data.loops[Len(int_data.loops)]
      left == [int_data EXCEPT !.loops = SubSeq(@, 1, Len(@) - 1)]
      next_opcode == read_opcode(int_data.pos)
  IN IF ~ecma_is_completion_value_normal(evaluate_prop_completion)
     THEN {opfunc_obj_decl_end(h, obj_decl_p, evaluate_prop_completion, left, <<>>)}
     ELSE IF ~(/\ ecma_is_completion_value_empty(evaluate_prop_completion)
               /\ next_opcode.op_idx = "meta"
               /\ next_opcode.type \in {"OPCODE_META_TYPE_VARG_PROP_DATA",
                                        "OPCODE_META_TYPE_VARG_PROP_GETTER",
                                        "OPCODE_META_TYPE_VARG_PROP_SETTER"})
     THEN {IntCallOutcome(h, left, ecma_make_empty_completion_value, "assert", <<>>)}
     ELSE LET type == next_opcode.type
              prop_name_var_idx == next_opcode.data_1
              value_for_prop_desc_var_idx == next_opcode.data_2
          IN UNION {
               IF value_for_prop_desc_completion.fatal # "none"
               THEN {IntCallOutcome(value_for_prop_desc_completion.heap, left,
                                    ecma_make_empty_completion_value,
                                    value_for_prop_desc_completion.fatal,
                                    value_for_prop_desc_completion.calls)}
               ELSE IF ~ecma_is_completion_value_normal(value_for_prop_desc_completion.ret)
               THEN {opfunc_obj_decl_end(value_for_prop_desc_completion.heap, obj_decl_p,
                                         value_for_prop_desc_completion.ret, left,
                                         value_for_prop_desc_completion.calls)}
               ELSE IF ~is_reg_variable(int_data, prop_name_var_idx)
               THEN {IntCallOutcome(value_for_prop_desc_completion.heap, left,
                                    ecma_make_empty_completion_value, "assert",
                                    value_for_prop_desc_completion.calls)}
               ELSE opfunc_obj_decl_define(value_for_prop_desc_completion, obj_decl_p, type,
                                           prop_name_var_idx, left)
               : value_for_prop_desc_completion \in
                   get_variable_value_or_identifier(h, int_data,
                                                    value_for_prop_desc_var_idx) }

ObjDecl ==
  /\ Dispatching("obj_decl")
  /\ Dispatch(opfunc_obj_decl(heap, read_opcode(frames[Len(frames)].pos),
                              frames[Len(frames)]))

\* the run_int_loop of an entry has ended: the rest of the turn of the loop
\* of opfunc_obj_decl and, after the last entry, of the handler
ObjDeclReturn ==
  /\ run = "running"
  /\ fatal = "none"
  /\ frames # <<>>
  /\ ~ecma_is_completion_value_normal(ret)
  /\ frames[Len(frames)].loops # <<>>
  /\ frames[Len(frames)].loops[Len(frames[Len(frames)].loops)].opdata.op_idx = "obj_decl"
  /\ \E o \in opfunc_obj_decl_return(heap, run_int_loop_return(ret), frames[Len(frames)]) :
       /\ heap' = o.heap
       /\ frames' = [frames EXCEPT ![Len(frames)] = o.int_data]
       /\ ret' = o.ret
       /\ fatal' = IF o.fatal # "none" THEN o.fatal
                   ELSE IF ecma_is_completion_value_normal(o.ret)
                           /\ ~ecma_is_completion_value_empty(o.ret)
                   THEN "assert" ELSE "none"
       /\ op' = MkOpcodeOp(frames[Len(frames)].loops[Len(frames[Len(frames)].loops)].opdata)
       /\ calls' = o.calls
       /\ UNCHANGED <<program, run, result>>

\* entries of an object literal
MaxEntries == 2

\* the opcodes that evaluate an entry, before its meta opcode: nothing, a
\* new name, a new value, or a throw
ObjDeclEvaluations(type) ==
  {<<>>,
   <<[op_idx |-> "assignment", var_left |-> MIN_REG,
      type_value_right |-> "OPCODE_ARG_TYPE_STRING", value_right |-> 1]>>,
   <<[op_idx |-> "throw_value", var |-> MIN_REG]>>}
  \cup (IF type = "OPCODE_META_TYPE_VARG_PROP_DATA"
        THEN {<<[op_idx |-> "assignment", var_left |-> MAX_REG,
                 type_value_right |-> "OPCODE_ARG_TYPE_SMALLINT", value_right |-> 0]>>}
        ELSE {})

\* where the value of an entry is read: a data entry reads the second
\* register or the identifier p, which nothing binds; a getter or a setter
\* reads the identifier q, which the Global object binds to a function
ObjDeclValueOperands(type) ==
  IF type = "OPCODE_META_TYPE_VARG_PROP_DATA" THEN {MAX_REG, 0} ELSE {1}

ObjDeclEntries ==
  UNION { { evaluation \o <<[op_idx |-> "meta", type |-> type,
                             data_1 |-> MIN_REG, data_2 |-> value_idx]>>
            : evaluation \in ObjDeclEvaluations(type),
              value_idx \in ObjDeclValueOperands(type) }
          : type \in {"OPCODE_META_TYPE_VARG_PROP_DATA", "OPCODE_META_TYPE_VARG_PROP_GETTER",
                      "OPCODE_META_TYPE_VARG_PROP_SETTER"} }

\* the entries of a list, counted
RECURSIVE ObjDeclLists(_)
ObjDeclLists(n) ==
  IF n = 0 THEN {[list |-> 0, code |-> <<>>]}
  ELSE { [list |-> entries.list + 1, code |-> entry \o entries.code]
         : entry \in ObjDeclEntries, entries \in ObjDeclLists(n - 1) }

ObjDeclPrograms ==
  { <<[op_idx |-> "obj_decl", lhs |-> MAX_REG, list |-> entries.list]>> \o entries.code
      \o <<[op_idx |-> "exitval", status_code |-> 0]>>
    : entries \in UNION { ObjDeclLists(n) : n \in 0..MaxEntries } }

\* the names of the entries: strings, a number, an object whose ToString
\* calls a function
ObjDeclNames == {StringValue(0), StringValue(1), NumberValue(NUM_ONE), ObjectValue(USER_OBJECT)}

\* the values of the data entries
ObjDeclValues == {NumberValue(NUM_ONE), ObjectValue(11)}

InitObjDecl ==
  /\ heap = UserHeap
  /\ ret = ecma_make_empty_completion_value
  /\ op = NoOp
  /\ calls = <<>>
  /\ fatal = "none"
  /\ program \in ObjDeclPrograms
  /\ \E is_strict \in BOOLEAN, first \in ObjDeclNames, second \in ObjDeclValues :
       frames = <<[MkIntData(0, ObjectValue(GLOBAL_OBJECT), Len(ecma_init) + 1, is_strict,
                             FALSE, MIN_REG, MAX_REG)
                    EXCEPT !.regs = <<first, second>>]>>
  /\ run = "running"
  /\ result = "none"

NextObjDecl ==
  \/ ObjDecl
  \/ ObjDeclReturn
  \/ Assignment
  \/ ThrowValue
  \/ Meta
  \/ Exitval
  \/ run_int_from_pos_return
  \/ run_int_return

SpecObjDecl == InitObjDecl /\ [][NextObjDecl]_vars

(***************************************************************************)
(* Properties of the object operations.                                    *)
(***************************************************************************)
TRUE_COMPLETION  == MkCompletion("normal", MkValue("boolean", 1))
FALSE_COMPLETION == MkCompletion("normal", MkValue("boolean", 0))
TYPE_ERROR       == MkCompletion("throw", MkValue("object", ECMA_ERROR_TYPE))

\* the completion of a rejected call
IsRejection(r, is_throw) == r = IF is_throw THEN TYPE_ERROR ELSE FALSE_COMPLETION

\* the own property of object o named n, NoProperty if there is none
Own(h, o, n) ==
  IF \E i \in 1..Len(h[o].props) : h[o].props[i].name = n
  THEN h[o].props[CHOOSE i \in 1..Len(h[o].props) :
                     /\ h[o].props[i].name = n
                     /\ \A j \in 1..(i - 1) : h[o].props[j].name # n]
  ELSE NoProperty

IsData(prop)     == prop.type = "NAMEDDATA"
IsAccessor(prop) == prop.type = "NAMEDACCESSOR"

IsDataDescriptor(d)     == d.is_value_defined \/ d.is_writable_defined
IsAccessorDescriptor(d) == d.is_get_defined \/ d.is_set_defined

\* SameValue of ECMA-262 v5, 9.12 on the values of the model
SameValue(x, y) ==
  /\ x.t = y.t
  /\ IF x.t = "number"
     THEN (x.v \in {NUM_NAN_A, NUM_NAN_B} /\ y.v \in {NUM_NAN_A, NUM_NAN_B}) \/ x.v = y.v
     ELSE x.v = y.v

GeneralObjects == {o \in DOMAIN heap : heap[o].lexenv = "none"}
PropertyNames == {"p", "q"}

\* the step is a call of the named operation on property n of object o
Called(opname, o, n) == op'.name = opname /\ op'.obj = o /\ op'.pname = n

\* the call of the step would change an attribute that a property that is
\* not configurable keeps
WouldChangeNonConfigurable(before) ==
  \/ op'.name = "delete"
  \/ /\ op'.name = "define_own_property"
     /\ \/ op'.desc.is_configurable_defined /\ op'.desc.is_configurable
        \/ op'.desc.is_enumerable_defined /\ op'.desc.is_enumerable # before.enumerable
        \/ IsData(before) /\ IsAccessorDescriptor(op'.desc)
        \/ IsAccessor(before) /\ IsDataDescriptor(op'.desc)
        \/ IsAccessor(before) /\ op'.desc.is_get_defined /\ op'.desc.get_p # before.get_p
        \/ IsAccessor(before) /\ op'.desc.is_set_defined /\ op'.desc.set_p # before.set_p

\* C2: a property that is not configurable is kept by every
\* [[DefineOwnProperty]], [[Put]] and [[Delete]]: it still exists, is still
\* not configurable, has the same kind and the same enumerable attribute,
\* an accessor has the same getter and setter; and a call that would change
\* one of these is rejected.
C2_NonConfigurableIsKept ==
  [][\A o \in GeneralObjects : \A n \in PropertyNames :
       LET before == Own(heap, o, n)
           after  == Own(heap', o, n)
       IN (before # NoProperty /\ ~before.configurable) =>
            /\ after # NoProperty
            /\ ~after.configurable
            /\ after.type = before.type
            /\ after.enumerable = before.enumerable
            /\ IsAccessor(before) =>
                 after.get_p = before.get_p /\ after.set_p = before.set_p
            /\ (op'.obj = o /\ op'.pname = n /\ WouldChangeNonConfigurable(before)) =>
                 IsRejection(ret', op'.is_throw)]_vars

\* a call that flips the enumerable attribute of an accessor that is not
\* configurable has been rejected with a TypeError
C2_Witness ==
  /\ op.name = "define_own_property"
  /\ op.is_throw
  /\ IsAccessor(Own(heap, 1, "p"))
  /\ ~Own(heap, 1, "p").configurable
  /\ op.desc.is_enumerable_defined
  /\ op.desc.is_enumerable # Own(heap, 1, "p").enumerable
  /\ ret = TYPE_ERROR

\* C3: a data property that is neither configurable nor writable keeps a
\* value that is SameValue-equal and stays not writable over every
\* [[DefineOwnProperty]], [[Put]] and [[Delete]]; a descriptor with
\* writable = true or with a value that differs by SameValue is rejected.
C3_FrozenValueIsKept ==
  [][\A o \in GeneralObjects : \A n \in PropertyNames :
       LET before == Own(heap, o, n)
           after  == Own(heap', o, n)
       IN (IsData(before) /\ ~before.configurable /\ ~before.writable) =>
            /\ IsData(after)
            /\ ~after.writable
            /\ SameValue(after.value, before.value)
            /\ ( /\ Called("define_own_property", o, n)
                 /\ \/ op'.desc.is_writable_defined /\ op'.desc.is_writable
                    \/ /\ op'.desc.is_value_defined
                       /\ ~SameValue(op'.desc.value, before.value) )
                 => IsRejection(ret', op'.is_throw)
            /\ ( /\ Called("put", o, n)
                 /\ ~SameValue(op'.value, before.value) )
                 => IsRejection(ret', op'.is_throw)]_vars

\* a descriptor whose value is -0 has been rejected on a frozen property
\* whose value is +0
C3_Witness ==
  /\ op.name = "define_own_property"
  /\ op.desc.is_value_defined
  /\ op.desc.value = NumberValue(NUM_NZERO)
  /\ IsData(Own(heap, 1, "p"))
  /\ Own(heap, 1, "p").value = NumberValue(NUM_PZERO)
  /\ ~Own(heap, 1, "p").configurable
  /\ ~Own(heap, 1, "p").writable
  /\ IsRejection(ret, op.is_throw)

\* C4: a [[DefineOwnProperty]] that does not complete with true is a
\* rejection: a TypeError throw completion when is_throw is true and the
\* normal value false when it is false, and the heap is as before the call.
C4_RejectionLeavesHeap ==
  [][(op'.name = "define_own_property" /\ fatal' = "none" /\ ret' # TRUE_COMPLETION) =>
       /\ IsRejection(ret', op'.is_throw)
       /\ heap' = heap]_vars

\* a non-throwing call has been rejected on an existing property
C4_Witness ==
  /\ op.name = "define_own_property"
  /\ ~op.is_throw
  /\ ret = FALSE_COMPLETION
  /\ Own(heap, 1, "p") # NoProperty

\* the property a [[DefineOwnProperty]] with descriptor d makes under name
\* n when it takes no attribute but enumerable and configurable from a
\* property that was there: e and c are the attributes not defined by d get
NewProperty(n, d, e, c) ==
  IF IsAccessorDescriptor(d)
  THEN MkAccessorProperty(n,
                          IF d.is_get_defined THEN d.get_p ELSE NULL,
                          IF d.is_set_defined THEN d.set_p ELSE NULL,
                          IF d.is_enumerable_defined THEN d.is_enumerable ELSE e,
                          IF d.is_configurable_defined THEN d.is_configurable ELSE c)
  ELSE MkDataProperty(n,
                      IF d.is_value_defined THEN d.value ELSE MkValue("undefined", 0),
                      IF d.is_writable_defined THEN d.is_writable ELSE FALSE,
                      IF d.is_enumerable_defined THEN d.is_enumerable ELSE e,
                      IF d.is_configurable_defined THEN d.is_configurable ELSE c)

\* the step is a [[DefineOwnProperty]] that switches the kind of the
\* configurable property n of o
SwitchesKind(o, n) ==
  /\ Called("define_own_property", o, n)
  /\ Own(heap, o, n) # NoProperty
  /\ Own(heap, o, n).configurable
  /\ \/ IsData(Own(heap, o, n)) /\ IsAccessorDescriptor(op'.desc)
     \/ IsAccessor(Own(heap, o, n)) /\ IsDataDescriptor(op'.desc)

\* C5: a [[DefineOwnProperty]] that switches the kind of a configurable
\* property fails no assertion and completes with true; in place of the old
\* property there is one of the other kind that keeps enumerable and
\* configurable unless the descriptor defines them and takes the other
\* fields from the descriptor.
C5_KindSwitch ==
  [][\A o \in GeneralObjects : \A n \in PropertyNames :
       SwitchesKind(o, n) =>
         /\ fatal' = "none"
         /\ ret' = TRUE_COMPLETION
         /\ Own(heap', o, n) = NewProperty(n, op'.desc, Own(heap, o, n).enumerable,
                                           Own(heap, o, n).configurable)
         /\ Len(heap'[o].props) = Len(heap[o].props)]_vars

\* C6: [[DefineOwnProperty]] under a name the object has no own property
\* of: an object that is not extensible rejects and gets no property; an
\* extensible one gets a data property from a generic or data descriptor
\* and an accessor from an accessor descriptor, every attribute the
\* descriptor does not define being false, undefined or null; the result
\* is true and every other property is as before.
C6_DefineAbsent ==
  [][\A o \in GeneralObjects : \A n \in PropertyNames :
       (Called("define_own_property", o, n) /\ Own(heap, o, n) = NoProperty) =>
          IF heap[o].extensible
          THEN /\ fatal' = "none"
               /\ ret' = TRUE_COMPLETION
               /\ Own(heap', o, n) = NewProperty(n, op'.desc, FALSE, FALSE)
               /\ Len(heap'[o].props) = Len(heap[o].props) + 1
               /\ \A m \in PropertyNames \ {n} : Own(heap', o, m) = Own(heap, o, m)
          ELSE /\ IsRejection(ret', op'.is_throw)
               /\ heap' = heap]_vars

\* a descriptor that defines only a getter has made an accessor whose
\* other attributes are the defaults
C6_Witness ==
  /\ op.name = "define_own_property"
  /\ op.desc.is_get_defined
  /\ ~op.desc.is_set_defined
  /\ ~op.desc.is_enumerable_defined
  /\ ~op.desc.is_configurable_defined
  /\ ret = TRUE_COMPLETION
  /\ Own(heap, 1, "p") = MkAccessorProperty("p", op.desc.get_p, NULL, FALSE, FALSE)

\* the property with the fields that descriptor d defines laid over before
Overlaid(before, d) ==
  IF IsData(before)
  THEN MkDataProperty(before.name,
                      IF d.is_value_defined THEN d.value ELSE before.value,
                      IF d.is_writable_defined THEN d.is_writable ELSE before.writable,
                      IF d.is_enumerable_defined THEN d.is_enumerable ELSE before.enumerable,
                      IF d.is_configurable_defined THEN d.is_configurable
                                                   ELSE before.configurable)
  ELSE MkAccessorProperty(before.name,
                          IF d.is_get_defined THEN d.get_p ELSE before.get_p,
                          IF d.is_set_defined THEN d.set_p ELSE before.set_p,
                          IF d.is_enumerable_defined THEN d.is_enumerable
                                                     ELSE before.enumerable,
                          IF d.is_configurable_defined THEN d.is_configurable
                                                       ELSE before.configurable)

\* two properties with the same fields, the values compared by SameValue
SameProperty(x, y) ==
  IF IsData(x) /\ IsData(y)
  THEN /\ SameValue(x.value, y.value)
       /\ [x EXCEPT !.value = y.value] = y
  ELSE x = y

\* everything but property n of object o is the same in the next state
OthersUnchanged(o, n) ==
  /\ \A o2 \in DOMAIN heap \ {o} : heap'[o2] = heap[o2]
  /\ DOMAIN heap' = DOMAIN heap
  /\ Len(heap'[o].props) = Len(heap[o].props)
  /\ \A m \in PropertyNames \ {n} : Own(heap', o, m) = Own(heap, o, m)
  /\ heap'[o].extensible = heap[o].extensible
  /\ heap'[o].proto = heap[o].proto

\* C7: a [[DefineOwnProperty]] that succeeds on a property of the kind of
\* the descriptor changes exactly the fields the descriptor defines, every
\* other field and every other property keeps its value; a [[Put]] on an
\* own writable data property changes only the value.
C7_ExactlyDefinedFields ==
  [][\A o \in GeneralObjects : \A n \in PropertyNames :
       LET before == Own(heap, o, n)
           after  == Own(heap', o, n)
       IN /\ ( /\ Called("define_own_property", o, n)
               /\ before # NoProperty
               /\ ~(IsData(before) /\ IsAccessorDescriptor(op'.desc))
               /\ ~(IsAccessor(before) /\ IsDataDescriptor(op'.desc))
               /\ fatal' = "none"
               /\ ret' = TRUE_COMPLETION )
               => /\ SameProperty(after, Overlaid(before, op'.desc))
                  /\ OthersUnchanged(o, n)
          /\ ( /\ Called("put", o, n)
               /\ IsData(before)
               /\ before.writable )
               => /\ fatal' = "none"
                  /\ ret' = TRUE_COMPLETION
                  /\ SameProperty(after, [before EXCEPT !.value = op'.value])
                  /\ OthersUnchanged(o, n)]_vars

\* a descriptor that defines only writable = false has succeeded on a
\* property that keeps its value, enumerable and configurable
C7_Witness ==
  /\ op.name = "define_own_property"
  /\ op.desc = MkDescriptor(NoValue, "false", "absent", "absent", NoPointer, NoPointer)
  /\ ret = TRUE_COMPLETION
  /\ Own(heap, 1, "p") = MkDataProperty("p", NumberValue(NUM_NZERO), FALSE, TRUE, TRUE)
  /\ Own(heap, 1, "q") # NoProperty

\* the objects of the prototype chain of o, nearest first
RECURSIVE PrototypeChain(_, _)
PrototypeChain(h, o) ==
  IF h[o].proto = NULL THEN <<>> ELSE <<h[o].proto>> \o PrototypeChain(h, h[o].proto)

\* the property named n that o inherits, NoProperty if there is none
Inherited(h, o, n) ==
  LET chain == PrototypeChain(h, o)
      having == {k \in 1..Len(chain) : Own(h, chain[k], n) # NoProperty}
  IN IF having = {} THEN NoProperty
     ELSE Own(h, chain[CHOOSE k \in having : \A l \in having : k <= l], n)

\* [[CanPut]] of ECMA-262 v5, 8.12.4
CanPutOf(h, o, n) ==
  LET own == Own(h, o, n)
      inherited == Inherited(h, o, n)
  IN IF own # NoProperty
     THEN IF IsAccessor(own) THEN own.set_p # NULL ELSE own.writable
     ELSE IF inherited = NoProperty
          THEN h[o].extensible
          ELSE IF IsAccessor(inherited)
               THEN inherited.set_p # NULL
               ELSE h[o].extensible /\ inherited.writable

\* C9: when [[CanPut]] is false, [[Put]] completes with a TypeError throw
\* when is_throw is true and with the normal value false when it is false,
\* calls no setter and changes no object.
C9_PutRejected ==
  [][\A o \in GeneralObjects : \A n \in PropertyNames :
       (Called("put", o, n) /\ ~CanPutOf(heap, o, n)) =>
          /\ fatal' = "none"
          /\ IsRejection(ret', op'.is_throw)
          /\ calls' = <<>>
          /\ heap' = heap]_vars

\* a strict [[Put]] has thrown on an inherited accessor without setter
C9_Witness ==
  /\ op.name = "put"
  /\ op.is_throw
  /\ ret = TYPE_ERROR
  /\ Own(heap, 1, "p") = NoProperty
  /\ IsAccessor(Inherited(heap, 1, "p"))
  /\ Inherited(heap, 1, "p").set_p = NULL

\* C10: [[CanPut]] is: for an own accessor, whether it has a setter; for an
\* own data property, its writable attribute; without own property, the
\* extensible flag when nothing is inherited, whether the inherited
\* accessor has a setter, or extensible and the writable attribute of the
\* inherited data property.  It changes no object.
C10_CanPut ==
  [][\A o \in GeneralObjects : \A n \in PropertyNames :
       Called("can_put", o, n) =>
          /\ fatal' = "none"
          /\ ret' = IF CanPutOf(heap, o, n) THEN TRUE_COMPLETION ELSE FALSE_COMPLETION
          /\ calls' = <<>>
          /\ heap' = heap]_vars

\* [[CanPut]] has been false for an inherited writable data property
\* because the object is not extensible
C10_Witness ==
  /\ op.name = "can_put"
  /\ ret = FALSE_COMPLETION
  /\ Own(heap, 1, "p") = NoProperty
  /\ IsData(Inherited(heap, 1, "p"))
  /\ Inherited(heap, 1, "p").writable
  /\ ~heap[1].extensible

\* the nearest property named n of o: its own one, else the inherited one
Nearest(h, o, n) == IF Own(h, o, n) # NoProperty THEN Own(h, o, n) ELSE Inherited(h, o, n)

\* every object but o is the same in the next state
OtherObjectsUnchanged(o) ==
  /\ DOMAIN heap' = DOMAIN heap
  /\ \A o2 \in DOMAIN heap \ {o} : heap'[o2] = heap[o2]

\* C11: when O has no own property P, is extensible and inherits either no
\* P or a writable data property P, [[Put]] returns true and O gets an own
\* data property P with the value put, writable, enumerable and
\* configurable; no setter is called, the other properties of O and every
\* other object, the prototypes included, stay as they were, and the
\* nearest property P of O is now the own one.
C11_PutCreates ==
  [][\A o \in GeneralObjects : \A n \in PropertyNames :
       ( /\ Called("put", o, n)
         /\ Own(heap, o, n) = NoProperty
         /\ heap[o].extensible
         /\ \/ Inherited(heap, o, n) = NoProperty
            \/ IsData(Inherited(heap, o, n)) /\ Inherited(heap, o, n).writable ) =>
          /\ fatal' = "none"
          /\ ret' = TRUE_COMPLETION
          /\ calls' = <<>>
          /\ Own(heap', o, n) = MkDataProperty(n, op'.value, TRUE, TRUE, TRUE)
          /\ Nearest(heap', o, n) = Own(heap', o, n)
          /\ Inherited(heap', o, n) = Inherited(heap, o, n)
          /\ OtherObjectsUnchanged(o)
          /\ Len(heap'[o].props) = Len(heap[o].props) + 1
          /\ \A m \in PropertyNames \ {n} : Own(heap', o, m) = Own(heap, o, m)
          /\ heap'[o].extensible = heap[o].extensible
          /\ heap'[o].proto = heap[o].proto]_vars

\* a [[Put]] has made an own property that shadows the writable data
\* property of the prototype
C11_Witness ==
  /\ op.name = "put"
  /\ ret = TRUE_COMPLETION
  /\ Own(heap, 1, "p") = MkDataProperty("p", op.value, TRUE, TRUE, TRUE)
  /\ IsData(Inherited(heap, 1, "p"))
  /\ Inherited(heap, 1, "p").writable
  /\ Inherited(heap, 1, "p").value # op.value

\* C12: when O has no own data property P and the nearest property P of O
\* is an accessor with a setter, [[Put]] calls that setter once with this =
\* O and the one argument V, changes no object, and returns true when the
\* setter completes normally and the throw completion of the setter
\* otherwise.
C12_PutCallsSetter ==
  [][\A o \in GeneralObjects : \A n \in PropertyNames :
       ( /\ Called("put", o, n)
         /\ ~(Own(heap, o, n) # NoProperty /\ IsData(Own(heap, o, n)))
         /\ Nearest(heap, o, n) # NoProperty
         /\ IsAccessor(Nearest(heap, o, n))
         /\ Nearest(heap, o, n).set_p # NULL ) =>
          /\ fatal' = "none"
          /\ heap' = heap
          /\ Len(calls') = 1
          /\ calls'[1].func = Nearest(heap, o, n).set_p
          /\ calls'[1].this = ObjectValue(o)
          /\ calls'[1].args = <<op'.value>>
          /\ ret' = IF calls'[1].completion.type = "throw"
                    THEN calls'[1].completion
                    ELSE TRUE_COMPLETION]_vars

\* a [[Put]] has handed on the throw of the setter of an inherited accessor
C12_Witness ==
  /\ op.name = "put"
  /\ ret.type = "throw"
  /\ ret # TYPE_ERROR
  /\ Own(heap, 1, "p") = NoProperty
  /\ IsAccessor(Inherited(heap, 1, "p"))
  /\ Len(calls) = 1
  /\ calls[1].func = Inherited(heap, 1, "p").set_p
  /\ calls[1].completion = ret

\* C13: [[Get]] returns undefined when O has no property P, own or
\* inherited; the value of the nearest property P when it is a data
\* property; for an accessor the completion of its getter called with this
\* = O and no argument, and undefined when it has no getter.  It changes no
\* object and calls nothing else.
C13_Get ==
  [][\A o \in GeneralObjects : \A n \in PropertyNames :
       Called("get", o, n) =>
          LET prop == Nearest(heap, o, n)
          IN /\ fatal' = "none"
             /\ heap' = heap
             /\ IF prop = NoProperty
                THEN ret' = MkCompletion("normal", ECMA_SIMPLE_VALUE_UNDEFINED) /\ calls' = <<>>
                ELSE IF IsData(prop)
                THEN ret' = MkCompletion("normal", prop.value) /\ calls' = <<>>
                ELSE IF prop.get_p = NULL
                THEN ret' = MkCompletion("normal", ECMA_SIMPLE_VALUE_UNDEFINED) /\ calls' = <<>>
                ELSE /\ calls' = <<MkCall(prop.get_p, ObjectValue(o), <<>>, ret')>>
                     /\ ret'.type \in {"normal", "throw"}]_vars

\* a [[Get]] has returned the value of the data property of the prototype
C13_Witness ==
  /\ op.name = "get"
  /\ Own(heap, 1, "p") = NoProperty
  /\ IsData(Inherited(heap, 1, "p"))
  /\ ret = MkCompletion("normal", Inherited(heap, 1, "p").value)

\* C14: [[Delete]] returns true and changes nothing when O has no own
\* property P; removes the own property P, and nothing else, and returns
\* true when it is configurable; otherwise changes nothing and completes
\* with a TypeError throw when is_throw is true and with false when it is
\* false.  No other object, the prototypes included, is changed.
C14_Delete ==
  [][\A o \in GeneralObjects : \A n \in PropertyNames :
       Called("delete", o, n) =>
          /\ fatal' = "none"
          /\ calls' = <<>>
          /\ OtherObjectsUnchanged(o)
          /\ IF Own(heap, o, n) = NoProperty
             THEN ret' = TRUE_COMPLETION /\ heap' = heap
             ELSE IF Own(heap, o, n).configurable
             THEN /\ ret' = TRUE_COMPLETION
                  /\ Own(heap', o, n) = NoProperty
                  /\ Len(heap'[o].props) = Len(heap[o].props) - 1
                  /\ \A m \in PropertyNames \ {n} : Own(heap', o, m) = Own(heap, o, m)
                  /\ heap'[o].extensible = heap[o].extensible
                  /\ heap'[o].proto = heap[o].proto
             ELSE /\ IsRejection(ret', op'.is_throw)
                  /\ heap' = heap]_vars

\* a strict [[Delete]] has thrown on an own property that is not
\* configurable, which is still there, as is that of the prototype
C14_Witness ==
  /\ op.name = "delete"
  /\ op.is_throw
  /\ ret = TYPE_ERROR
  /\ Own(heap, 1, "p") # NoProperty
  /\ ~Own(heap, 1, "p").configurable
  /\ Inherited(heap, 1, "p") # NoProperty

\* the call of the step is a row of calls on property n of object o, all
\* of which have been made
RowMade(opname, o, n, length) == Called(opname, o, n) /\ Len(op'.steps) = length

UNDEFINED_COMPLETION == MkCompletion("normal", MkValue("undefined", 0))

\* C15 as stated: on an extensible object that inherits no property n,
\* [[Put]] then [[Delete]] then [[Get]] of n ends with undefined.
C15_PutDeleteGet ==
  [][\A o \in GeneralObjects : \A n \in PropertyNames :
       ( /\ RowMade("put_delete_get", o, n, 3)
         /\ heap[o].extensible
         /\ Inherited(heap, o, n) = NoProperty ) =>
          op'.steps[3] = UNDEFINED_COMPLETION]_vars

\* C15, amended: on an extensible object that inherits no property n and
\* whose own property n, if it has one, is configurable, [[Put]] then
\* [[Delete]] then [[Get]] of n ends with undefined, and the object has no
\* own property n.
C15_PutDeleteGetConfigurable ==
  [][\A o \in GeneralObjects : \A n \in PropertyNames :
       ( /\ RowMade("put_delete_get", o, n, 3)
         /\ heap[o].extensible
         /\ Inherited(heap, o, n) = NoProperty
         /\ Own(heap, o, n) # NoProperty => Own(heap, o, n).configurable ) =>
          /\ op'.steps[2] = TRUE_COMPLETION
          /\ op'.steps[3] = UNDEFINED_COMPLETION
          /\ Own(heap', o, n) = NoProperty]_vars

\* a [[Put]] that has made the property, a [[Delete]] that has removed it
\* and a [[Get]] that has found nothing
C15_Witness ==
  /\ op.name = "put_delete_get"
  /\ Len(op.steps) = 3
  /\ op.steps[1] = TRUE_COMPLETION
  /\ op.steps[2] = TRUE_COMPLETION
  /\ op.steps[3] = UNDEFINED_COMPLETION
  /\ calls = <<>>
  /\ heap[1].extensible
  /\ Inherited(heap, 1, "p") = NoProperty
  /\ Own(heap, 1, "p") = NoProperty

\* C16 as stated: [[DefineOwnProperty]] of a writable, enumerable and
\* configurable value v, then [[Get]], ends with a value w such that
\* SameValue(v, w).
C16_DefineGet ==
  [][\A o \in GeneralObjects : \A n \in PropertyNames :
       RowMade("define_get", o, n, 2) =>
          /\ op'.steps[2].type = "normal"
          /\ SameValue(op'.value, op'.steps[2].value)]_vars

\* C16, amended: when that [[DefineOwnProperty]] completes with true, the
\* [[Get]] that follows ends with a value w such that SameValue(v, w).
C16_DefineGetAccepted ==
  [][\A o \in GeneralObjects : \A n \in PropertyNames :
       ( /\ RowMade("define_get", o, n, 2)
         /\ op'.steps[1] = TRUE_COMPLETION ) =>
          /\ op'.steps[2].type = "normal"
          /\ SameValue(op'.value, op'.steps[2].value)
          /\ calls' = <<>>]_vars

\* -0 has been defined over +0 and read back
C16_Witness ==
  /\ op.name = "define_get"
  /\ Len(op.steps) = 2
  /\ op.steps[1] = TRUE_COMPLETION
  /\ op.value = NumberValue(NUM_NZERO)
  /\ op.steps[2] = MkCompletion("normal", NumberValue(NUM_NZERO))
  /\ Own(heap, 1, "p") = MkDataProperty("p", NumberValue(NUM_NZERO), TRUE, TRUE, TRUE)

(***************************************************************************)
(* Properties of the interpreter.                                          *)
(***************************************************************************)
\* C1: run_int returns true exactly when the top-level frame ends with the
\* exit completion of an exitval with status_code 0 and false when it ends
\* with that of an exitval with status_code 1; when a throw completion
\* leaves the top-level frame it returns nothing and the process ends with
\* jerry_exit (ERR_UNHANDLED_EXCEPTION).
C1_RunIntResult ==
  [][(run = "ended") =>
       /\ ecma_is_completion_value_exit(ret) =>
            /\ op.name = "exitval"
            /\ op.opdata.status_code \in {0, 1}
            /\ result' = (IF op.opdata.status_code = 0 THEN "true" ELSE "false")
            /\ run' = "done"
            /\ fatal' = "none"
       /\ ecma_is_completion_value_throw(ret) =>
            /\ result' = "none"
            /\ run' # "done"
            /\ fatal' = "ERR_UNHANDLED_EXCEPTION"
       /\ result' # "none" => ecma_is_completion_value_exit(ret)]_vars

\* run_int has returned false after a failing exitval that follows a
\* declaration
C1_Witness ==
  /\ run = "done"
  /\ result = "false"
  /\ op.name = "exitval"
  /\ op.opdata.status_code = 1
  /\ \E i \in 1..Len(program) : program[i].op_idx = "var_decl"

(***************************************************************************)
(* Properties of the property lists.                                       *)
(***************************************************************************)
\* C8: no object and no lexical environment holds two named properties
\* with the same name, whatever [[DefineOwnProperty]] (kind switches
\* included), [[Put]], [[Delete]], var_decl with its CreateMutableBinding,
\* CreateImmutableBinding and DeleteBinding have been executed.
C8_UniqueNames ==
  \A o \in DOMAIN heap :
    \A i, j \in 1..Len(heap[o].props) :
      i # j => heap[o].props[i].name # heap[o].props[j].name

\* the frame has executed two var_decl for "p" on the declarative
\* environment, which has the one binding the first of them made
C8_Witness ==
  /\ op.name = "var_decl"
  /\ op.opdata.variable_name = 0
  /\ frames[1].lex_env_p = 4
  /\ ~frames[1].is_eval_code
  /\ frames[1].pos = 2
  /\ Len(heap[4].props) = 1
  /\ heap[4].props[1].name = "p"
  /\ IsAccessor(Own(heap, 1, "p"))

(***************************************************************************)
(* Properties of run_int_loop and of the handlers that call it.            *)
(***************************************************************************)
\* the step is made while a run_int_loop is running
InLoop == run = "running" /\ fatal = "none" /\ frames # <<>>

\* the step is the return of a run_int_loop to its caller, opfunc_with or
\* run_int_from_pos
LoopEnds ==
  /\ InLoop
  /\ \/ Len(frames') < Len(frames)
     \/ /\ Len(frames') = Len(frames)
        /\ Len(frames'[Len(frames)].loops) < Len(frames[Len(frames)].loops)

\* the step is a dispatch of an opcode by a run_int_loop
LoopDispatches == InLoop /\ ~LoopEnds /\ frames' # frames

PROPAGATING == {"throw", "return", "exit"}

\* C17 as stated: a run_int_loop dispatches after a normal-empty or a meta
\* completion, and it ends, handing the completion to its caller, only on
\* a throw, return or exit completion.
C17_LoopEndsOnPropagating ==
  [][/\ LoopEnds => ret.type \in PROPAGATING /\ ret' = ret
     /\ LoopDispatches => ret.type \in {"normal", "meta"}]_vars

\* C17: a run_int_loop dispatches only after a normal-empty completion; it
\* ends on a meta, throw, return or exit completion, and what its caller
\* has then is normal-empty for meta and the completion itself otherwise.
C17_LoopEndsOnMeta ==
  [][/\ LoopEnds => /\ ret.type \in PROPAGATING \cup {"meta"}
                    /\ ret' = IF ret.type = "meta"
                              THEN ecma_make_empty_completion_value ELSE ret
     /\ LoopDispatches => ecma_is_completion_value_empty(ret)]_vars

\* the loop of a with has ended on the meta end_with of the block, and the
\* loop of the frame is about to dispatch the opcode after it
C17_Witness ==
  /\ run = "running"
  /\ fatal = "none"
  /\ op.name = "with"
  /\ frames[1].loops = <<>>
  /\ ecma_is_completion_value_empty(ret)
  /\ read_opcode(frames[1].pos - 1).op_idx = "meta"
  /\ read_opcode(frames[1].pos - 1).type = "OPCODE_META_TYPE_END_WITH"
  /\ read_opcode(frames[1].pos).op_idx = "var_decl"

HandlerReturns ==
  /\ InLoop
  /\ run' = "running"
  /\ Len(frames'[Len(frames)].loops) <= Len(frames[Len(frames)].loops)

RECURSIVE OuterEnv(_, _, _)
OuterEnv(h, lex_env_p, k) ==
  IF k = 0 THEN lex_env_p
  ELSE OuterEnv(h, ecma_get_lex_env_outer_reference(h, lex_env_p), k - 1)

\* the environment run_int gives the frame
FRAME_ENV == Len(ecma_init) + 1

\* C20: when opfunc_with returns, after the normal end of its body, after
\* a throw, return or exit from the body at any depth or after the
\* TypeError of ToObject, the frame has the environment it had when the
\* handler was dispatched; while the body runs the environment is a new
\* object-bound one, with provide_this, over the with-object and its outer
\* environment is the previous one.
C20_WithRestoresEnv ==
  [][InLoop /\ run' = "running" =>
       LET before == frames[Len(frames)]
           after == frames'[Len(frames)]
           expr_value == before.regs[op'.opdata.expr - before.min_reg_num + 1]
           new_env_p == after.lex_env_p
       IN /\ OuterEnv(heap', after.lex_env_p, Len(after.loops)) = FRAME_ENV
          /\ Len(after.loops) > Len(before.loops) =>
               /\ new_env_p \notin DOMAIN heap
               /\ ecma_get_lex_env_type(heap', new_env_p) = ECMA_LEXICAL_ENVIRONMENT_OBJECTBOUND
               /\ heap'[new_env_p].provide_this
               /\ ecma_get_lex_env_outer_reference(heap', new_env_p) = before.lex_env_p
               /\ IF ecma_is_value_object(expr_value)
                  THEN ecma_get_lex_env_binding_object(heap', new_env_p) = expr_value.v
                  ELSE /\ ecma_get_lex_env_binding_object(heap', new_env_p) \notin DOMAIN heap
                       /\ ~ecma_is_lexical_environment(
                             heap', ecma_get_lex_env_binding_object(heap', new_env_p))
          /\ Len(after.loops) < Len(before.loops) =>
               /\ after.lex_env_p = ecma_get_lex_env_outer_reference(heap, before.lex_env_p)
               /\ after.lex_env_p = IF Len(before.loops) = 1 THEN FRAME_ENV
                                    ELSE before.loops[Len(before.loops) - 1].new_env_p
          /\ (Len(after.loops) = Len(before.loops) /\ op'.name = "with") =>
               /\ ret' = ecma_make_throw_obj_completion_value(ECMA_ERROR_TYPE)
               /\ after.lex_env_p = before.lex_env_p
               /\ heap' = heap]_vars

\* a throw_value two with-blocks deep has left both blocks: the frame has
\* the environment run_int gave it, and the loop of the frame is about to
\* end on the throw completion
C20_Witness ==
  /\ run = "running"
  /\ fatal = "none"
  /\ op.name = "with"
  /\ ecma_is_completion_value_throw(ret)
  /\ ret # ecma_make_throw_obj_completion_value(ECMA_ERROR_TYPE)
  /\ frames[1].loops = <<>>
  /\ frames[1].lex_env_p = FRAME_ENV
  /\ ecma_get_lex_env_outer_reference(heap, Len(heap)) = Len(heap) - 1
  /\ ecma_get_lex_env_outer_reference(heap, Len(heap) - 1) = FRAME_ENV

(***************************************************************************)
(* Properties of call_n and construct_n.                                   *)
(***************************************************************************)
CALLS == {"call_n", "construct_n"}

\* this step is the return of a call_n or construct_n handler: at once when
\* it has no argument to gather, else after the loop of an argument
CallHandlerReturns ==
  /\ run = "running" /\ fatal = "none" /\ fatal' = "none"
  /\ frames # <<>> /\ frames' # <<>>
  /\ LET before == frames[Len(frames)]
         after == frames'[Len(frames')]
     IN \/ /\ ecma_is_completion_value_normal(ret)
           /\ read_opcode(before.pos).op_idx \in CALLS
           /\ Len(after.loops) = Len(before.loops)
        \/ /\ ~ecma_is_completion_value_normal(ret)
           /\ before.loops # <<>>
           /\ before.loops[Len(before.loops)].opdata.op_idx \in CALLS
           /\ Len(after.loops) < Len(before.loops)

\* the opcode of the handler that returns in this step
ReturningCall ==
  LET before == frames[Len(frames)]
  IN IF ecma_is_completion_value_normal(ret)
     THEN read_opcode(before.pos)
     ELSE before.loops[Len(before.loops)].opdata

\* the callee the returning handler read when it started
ReturningCallee ==
  LET before == frames[Len(frames)]
  IN IF ecma_is_completion_value_normal(ret)
     THEN get_variable_value(before, read_opcode(before.pos).name_lit_idx).value
     ELSE before.loops[Len(before.loops)].func_value

\* the returning handler gathered all its arguments: none of their
\* evaluations ended abruptly
ArgumentsGathered ==
  ecma_is_completion_value_normal(ret) \/ ret.type = "meta"

\* C21 as stated: whenever the callee of call_n is not callable, or the
\* callee of construct_n is not a constructor, the handler returns a throw
\* of a TypeError, calls nothing and leaves the registers as they were.
C21_NotCallableThrows ==
  [][ (CallHandlerReturns /\ ~ecma_op_is_callable(heap, ReturningCallee))
      => /\ ret' = TYPE_ERROR
         /\ calls' = <<>>
         /\ frames'[Len(frames')].regs = frames[Len(frames)].regs ]_vars

\* C21: when the callee of call_n is not callable, or the callee of
\* construct_n is not a constructor, and the evaluation of the arguments
\* did not end abruptly, the handler returns a throw of a TypeError, makes
\* no [[Call]] or [[Construct]] of the callee and does not write lhs.
C21_NotCallableThrowsAfterArguments ==
  [][ (CallHandlerReturns /\ ArgumentsGathered /\ ~ecma_op_is_callable(heap, ReturningCallee))
      => /\ ret' = TYPE_ERROR
         /\ calls' = <<>>
         /\ frames'[Len(frames')].regs = frames[Len(frames)].regs ]_vars

\* a construct_n of the undefined value with two arguments has thrown the
\* TypeError
C21_Witness ==
  /\ op.name = "construct_n"
  /\ op.opdata.arg_list = MaxArgs
  /\ frames # <<>>
  /\ frames[1].loops = <<>>
  /\ frames[1].pos = 1 + MaxArgs
  /\ frames[1].regs[1] = ECMA_SIMPLE_VALUE_UNDEFINED
  /\ ret = TYPE_ERROR
  /\ calls = <<>>

\* where the opcode of the returning handler is
ReturningCallPos ==
  LET before == frames[Len(frames)]
  IN IF ecma_is_completion_value_normal(ret)
     THEN before.pos
     ELSE before.loops[Len(before.loops)].lit_oc

\* a meta this_arg follows the opcode of the returning handler
ThisArgFollows ==
  LET next_opcode == read_opcode(ReturningCallPos + 1)
  IN next_opcode.op_idx = "meta" /\ next_opcode.type = "OPCODE_META_TYPE_THIS_ARG"

\* C22: the this value of the [[Call]] that call_n makes is the value of the
\* register that the meta this_arg after call_n names, with arg_list - 1
\* arguments; without a meta this_arg it is, with arg_list arguments, the
\* binding object of the current lexical environment when that is
\* object-bound and provides this, else undefined.
C22_ThisOfCall ==
  [][ (CallHandlerReturns /\ ReturningCall.op_idx = "call_n" /\ calls' # <<>>)
      => LET before == frames[Len(frames)]
             env == heap[before.lex_env_p]
             call == calls'[1]
         IN /\ Len(calls') = 1
            /\ call.func = ReturningCallee.v
            /\ IF ThisArgFollows
               THEN /\ call.this = before.regs[read_opcode(ReturningCallPos + 1).data_1
                                                 - before.min_reg_num + 1]
                    /\ Len(call.args) = ReturningCall.arg_list - 1
               ELSE /\ Len(call.args) = ReturningCall.arg_list
                    /\ call.this =
                         IF /\ env.lexenv = ECMA_LEXICAL_ENVIRONMENT_OBJECTBOUND
                            /\ env.provide_this
                         THEN ObjectValue(env.binding)
                         ELSE ECMA_SIMPLE_VALUE_UNDEFINED ]_vars

\* in the block of a with statement a call without a meta this_arg was made
\* with the object of the statement as this, although the register of a
\* method call would have given the number
C22_Witness ==
  /\ op.name = "call_n"
  /\ program[1].op_idx = "with"
  /\ program[2].op_idx = "call_n"
  /\ program[2].arg_list = 0
  /\ frames # <<>>
  /\ Len(calls) = 1
  /\ calls[1].this = ObjectValue(Len(ecma_init) + 2)
  /\ frames[1].regs[2] = NumberValue(NUM_ONE)
  /\ heap[frames[1].lex_env_p].provide_this

\* a method call: the this value is the register of the meta this_arg, and
\* the one argument that follows was passed
C22_WitnessThisArg ==
  /\ op.name = "call_n"
  /\ program[1].op_idx = "call_n"
  /\ program[1].arg_list = 2
  /\ program[2].op_idx = "meta"
  /\ program[2].type = "OPCODE_META_TYPE_THIS_ARG"
  /\ Len(calls) = 1
  /\ calls[1].this = ObjectValue(GLOBAL_OBJECT)
  /\ Len(calls[1].args) = 1

(***************************************************************************)
(* Properties of the property access handlers.                             *)
(***************************************************************************)
PROP_ACCESS == {"prop_getter", "prop_setter", "delete_prop"}

\* this step is a prop_getter, a prop_setter or a delete_prop
PropHandlerRuns ==
  /\ run = "running" /\ fatal = "none" /\ frames # <<>> /\ frames' # <<>>
  /\ ecma_is_completion_value_normal(ret)
  /\ read_opcode(frames[Len(frames)].pos).op_idx \in PROP_ACCESS

\* the base value of the handler of this step
PropBase ==
  LET int_data == frames[Len(frames)]
      opdata == read_opcode(int_data.pos)
  IN get_variable_value(int_data, IF opdata.op_idx = "delete_prop"
                                  THEN opdata.base ELSE opdata.obj).value

\* C23: prop_getter, prop_setter and delete_prop whose base is undefined or
\* null return a throw of a TypeError; no function is called (ToString is
\* not applied to the name), the heap is as it was (no [[Put]], no
\* [[Delete]]) and no register is written.
C23_BaseNotCoercible ==
  [][ (PropHandlerRuns
       /\ (ecma_is_value_undefined(PropBase) \/ ecma_is_value_null(PropBase)))
      => /\ ret' = TYPE_ERROR
         /\ calls' = <<>>
         /\ heap' = heap
         /\ frames'[Len(frames')].regs = frames[Len(frames)].regs ]_vars

\* a prop_getter of null whose name is the object with a toString function
\* has thrown the TypeError and called nothing
C23_Witness ==
  /\ op.name = "prop_getter"
  /\ frames # <<>>
  /\ frames[1].pos = 1
  /\ program[1].obj = MIN_REG /\ program[1].prop = MAX_REG
  /\ frames[1].regs = <<ECMA_SIMPLE_VALUE_NULL, ObjectValue(USER_OBJECT)>>
  /\ ret = TYPE_ERROR
  /\ calls = <<>>

(***************************************************************************)
(* Properties of the relational handlers.                                  *)
(***************************************************************************)
RELATIONAL == {"less_than", "greater_than", "less_or_equal_than", "greater_or_equal_than"}

\* this step is a relational handler that wrote its result
RelationalHandlerWrites ==
  /\ run = "running" /\ fatal = "none" /\ frames # <<>> /\ frames' # <<>>
  /\ ecma_is_completion_value_normal(ret)
  /\ read_opcode(frames[Len(frames)].pos).op_idx \in RELATIONAL
  /\ fatal' = "none"
  /\ ret' = ecma_make_empty_completion_value

BooleanValue(b) == IF b THEN ECMA_SIMPLE_VALUE_TRUE ELSE ECMA_SIMPLE_VALUE_FALSE

\* C24: with r the abstract relational comparison, less_than writes whether
\* r(left, right, TRUE) is true, greater_than whether r(right, left, FALSE)
\* is true, less_or_equal_than whether r(right, left, FALSE) is false and
\* greater_or_equal_than whether r(left, right, TRUE) is false; so when a
\* number operand is NaN every operator writes false, and for numbers that
\* are not NaN a <= b is written as the negation of b < a.
C24_RelationalOperators ==
  [][ RelationalHandlerWrites
      => LET int_data == frames[Len(frames)]
             opdata == read_opcode(int_data.pos)
             left == get_variable_value(int_data, opdata.var_left).value
             right == get_variable_value(int_data, opdata.var_right).value
             written == get_variable_value(frames'[Len(frames')], opdata.dst).value
             left_first == opdata.op_idx \in {"less_than", "greater_or_equal_than"}
             r == ecma_op_abstract_relational_compare(
                    heap, IF left_first THEN left ELSE right,
                    IF left_first THEN right ELSE left, left_first)
         IN /\ \E o \in r :
                 /\ o.calls = calls'
                 /\ ecma_is_completion_value_normal(o.ret)
                 /\ written =
                      BooleanValue(IF opdata.op_idx \in {"less_than", "greater_than"}
                                   THEN o.ret.value = ECMA_SIMPLE_VALUE_TRUE
                                   ELSE o.ret.value = ECMA_SIMPLE_VALUE_FALSE)
            /\ (ecma_is_value_number(left) /\ ecma_is_value_number(right))
                 => IF ecma_number_is_nan(left.v) \/ ecma_number_is_nan(right.v)
                    THEN written = ECMA_SIMPLE_VALUE_FALSE
                    ELSE written =
                           BooleanValue(
                             CASE opdata.op_idx = "less_than" ->
                                    ecma_number_real(left.v) < ecma_number_real(right.v)
                               [] opdata.op_idx = "greater_than" ->
                                    ecma_number_real(right.v) < ecma_number_real(left.v)
                               [] opdata.op_idx = "less_or_equal_than" ->
                                    ~(ecma_number_real(right.v) < ecma_number_real(left.v))
                               [] OTHER ->
                                    ~(ecma_number_real(left.v) < ecma_number_real(right.v))) ]_vars

\* NaN <= NaN has written false
C24_Witness ==
  /\ op.name = "less_or_equal_than"
  /\ frames # <<>>
  /\ frames[1].pos = 1
  /\ program[1].var_left = MIN_REG /\ program[1].var_right = MIN_REG
  /\ frames[1].regs = <<NumberValue(NUM_NAN_A), ECMA_SIMPLE_VALUE_FALSE>>
  /\ ret = ecma_make_empty_completion_value
  /\ fatal = "none"

(***************************************************************************)
(* Properties of typeof.                                                   *)
(***************************************************************************)
\* this step is a typeof
TypeofRuns ==
  /\ run = "running" /\ fatal = "none" /\ frames # <<>> /\ frames' # <<>>
  /\ ecma_is_completion_value_normal(ret)
  /\ read_opcode(frames[Len(frames)].pos).op_idx = "typeof"

\* the string typeof gives for a value, by its kind
TypeofString(value) ==
  CASE value.t = "undefined" -> "undefined"
    [] value.t = "null" -> "object"
    [] value.t = "boolean" -> "boolean"
    [] value.t = "number" -> "number"
    [] value.t = "string" -> "string"
    [] value.t = "object" -> IF value.v \in Functions THEN "function" ELSE "object"

\* C25: typeof writes to its destination the one of six strings that the
\* kind of its operand determines: "undefined", "object" for null and for
\* objects that are not callable, "boolean", "number", "string", "function"
\* for callable objects; for an identifier that no environment of the chain
\* binds it writes "undefined" and throws nothing, in strict code too.
C25_Typeof ==
  [][ TypeofRuns
      => LET int_data == frames[Len(frames)]
             opdata == read_opcode(int_data.pos)
             written == get_variable_value(frames'[Len(frames')], opdata.lhs).value
             name == Literals[opdata.obj + 1].str
             base == ecma_op_get_identifier_reference(heap, int_data.lex_env_p, name,
                                                      int_data.is_strict).base
         IN IF opdata.obj \in MIN_REG..MAX_REG
            THEN /\ ret' = ecma_make_empty_completion_value
                 /\ ecma_is_value_string(written)
                 /\ ecma_get_string_from_value(written)
                      = TypeofString(get_variable_value(int_data, opdata.obj).value)
            ELSE IF base = NULL
            THEN /\ ret' = ecma_make_empty_completion_value
                 /\ written = ecma_get_magic_string("undefined")
            ELSE ret' = ecma_make_empty_completion_value
                   => \E o \in ecma_op_get_binding_value(heap, base, name, int_data.is_strict) :
                        /\ ecma_is_completion_value_normal(o.ret)
                        /\ ecma_is_value_string(written)
                        /\ ecma_get_string_from_value(written) = TypeofString(o.ret.value) ]_vars

\* in strict code typeof of the identifier p, which nothing binds, has
\* written "undefined"
C25_Witness ==
  /\ op.name = "typeof"
  /\ program[1].obj = 0
  /\ frames # <<>>
  /\ frames[1].is_strict
  /\ frames[1].pos = 1
  /\ frames[1].regs[2] = ecma_get_magic_string("undefined")
  /\ ret = ecma_make_empty_completion_value
  /\ fatal = "none"

\* typeof of a register that holds a function object has written "function"
C25_WitnessFunction ==
  /\ op.name = "typeof"
  /\ program[1].obj = MIN_REG
  /\ frames # <<>>
  /\ frames[1].regs[1] \in {ObjectValue(func_obj_p) : func_obj_p \in Functions}
  /\ frames[1].regs[2] = ecma_get_magic_string("function")

(***************************************************************************)
(* Properties of [[DefaultValue]].                                         *)
(***************************************************************************)
\* one method tried: its property is read; a throw of the read ends the
\* operation; a value that is not callable is skipped; else it is called on
\* the object, and a throw or a result that is not an object ends the
\* operation
TriedMethod(h, obj_p, name) ==
  UNION {
    IF ecma_is_completion_value_throw(g.ret)
    THEN {[done |-> TRUE, ret |-> g.ret, calls |-> g.calls]}
    ELSE IF ~(g.ret.value.t = "object" /\ g.ret.value.v \in Functions)
    THEN {[done |-> FALSE, ret |-> g.ret, calls |-> g.calls]}
    ELSE { [done |-> c.type = "throw" \/ c.value.t # "object", ret |-> c,
            calls |-> g.calls \o <<MkCall(g.ret.value.v, ObjectValue(obj_p), <<>>, c)>>]
           : c \in ecma_op_function_call(g.ret.value.v, ObjectValue(obj_p), <<>>) }
    : g \in ecma_op_general_object_get(h, obj_p, name) }

\* what [[DefaultValue]] may give when its methods are tried in this order
TriedInOrder(h, obj_p, first, second) ==
  UNION {
    IF t1.done
    THEN {[ret |-> t1.ret, calls |-> t1.calls]}
    ELSE { IF t2.done
           THEN [ret |-> t2.ret, calls |-> t1.calls \o t2.calls]
           ELSE [ret |-> TYPE_ERROR, calls |-> t1.calls \o t2.calls]
           : t2 \in TriedMethod(h, obj_p, second) }
    : t1 \in TriedMethod(h, obj_p, first) }

\* C26: [[DefaultValue]] tries toString then valueOf for hint string and
\* valueOf then toString for hint number; no hint is string for a Date
\* object and number for any other; a method that is not callable is
\* skipped, the first call result that is not an object is the result, a
\* throw of a read or of a call is returned at once, and when no method
\* gives a primitive value the result is a throw of a TypeError.
C26_DefaultValue ==
  [][ op'.name = "default_value"
      => LET obj_p == op'.obj
             hint == IF op'.pname = ECMA_PREFERRED_TYPE_NO
                     THEN IF heap[obj_p].class = "Date"
                          THEN ECMA_PREFERRED_TYPE_STRING
                          ELSE ECMA_PREFERRED_TYPE_NUMBER
                     ELSE op'.pname
         IN /\ heap' = heap
            /\ fatal' = "none"
            /\ [ret |-> ret', calls |-> calls']
                 \in IF hint = ECMA_PREFERRED_TYPE_STRING
                     THEN TriedInOrder(heap, obj_p, "toString", "valueOf")
                     ELSE TriedInOrder(heap, obj_p, "valueOf", "toString")
            /\ ecma_is_completion_value_normal(ret')
                 => ret'.value.t \notin {"object", "empty"} ]_vars

\* without a hint, on a Date object whose toString is a function object and
\* whose valueOf is an accessor, the one call of toString gave the result
\* and the getter of valueOf was not called
C26_Witness ==
  /\ op.name = "default_value"
  /\ op.pname = ECMA_PREFERRED_TYPE_NO
  /\ heap[1].class = "Date"
  /\ Len(heap[1].props) = 2
  /\ heap[1].props[1].name = "toString"
  /\ heap[1].props[1].type = ECMA_PROPERTY_NAMEDDATA
  /\ heap[1].props[1].value.t = "object"
  /\ heap[1].props[2].type = ECMA_PROPERTY_NAMEDACCESSOR
  /\ Len(calls) = 1
  /\ ret = ecma_make_normal_completion_value(NumberValue(NUM_ONE))

\* both methods were called and gave objects: the TypeError
C26_WitnessTypeError ==
  /\ op.name = "default_value"
  /\ Len(calls) = 2
  /\ calls[1].completion.value.t = "object"
  /\ calls[2].completion.value.t = "object"
  /\ ret = TYPE_ERROR

(***************************************************************************)
(* Properties of the environment record operations.                        *)
(***************************************************************************)
REFERENCE_ERROR  == MkCompletion("throw", MkValue("object", ECMA_ERROR_REFERENCE))
EMPTY_COMPLETION == MkCompletion("normal", MkValue("empty", 0))

IsDeclarative(h, e) == h[e].lexenv = "declarative"

\* the binding is immutable and was not initialised
IsUninitialised(prop) == ~prop.writable /\ prop.value.t = "empty"

\* the completion for a binding with no value
NoValueCompletion(is_strict) ==
  IF is_strict THEN REFERENCE_ERROR ELSE UNDEFINED_COMPLETION

\* C27: GetBindingValue never returns the empty completion.  On a declarative
\* environment an immutable binding that is not initialised gives a
\* ReferenceError throw when S is true and undefined when it is false, any
\* other binding gives its value; on an object-bound environment the result is
\* that of [[Get]] when the binding object has the property and the
\* ReferenceError or undefined when it has not.
C27_GetBindingValue ==
  [][ op'.name = "get_binding_value" =>
        LET e    == op'.obj
            n    == op'.pname
            S    == op'.is_throw
            prop == Own(heap, e, n)
            b    == heap[e].binding
            found == Nearest(heap, b, n)
        IN /\ fatal' = "none"
           /\ ret' # EMPTY_COMPLETION
           /\ IF IsDeclarative(heap, e)
              THEN /\ heap' = heap
                   /\ ret' = IF IsUninitialised(prop)
                             THEN NoValueCompletion(S)
                             ELSE MkCompletion("normal", prop.value)
              ELSE IF found = NoProperty
              THEN heap' = heap /\ ret' = NoValueCompletion(S)
              ELSE /\ ret' \in {o.ret : o \in ecma_op_general_object_get(heap, b, n)}
                   /\ IsData(found) => heap' = heap /\ ret' = MkCompletion("normal", found.value)
    ]_vars

\* GetBindingValue with S true was called for an immutable binding that is
\* not initialised, and threw the ReferenceError
C27_Witness ==
  /\ op.name = "get_binding_value"
  /\ op.is_throw
  /\ IsDeclarative(heap, op.obj)
  /\ IsUninitialised(Own(heap, op.obj, op.pname))
  /\ ret = REFERENCE_ERROR

\* GetBindingValue with S false was called on the object-bound environment
\* whose binding object has no such property, and gave undefined
C27_WitnessObjectBound ==
  /\ op.name = "get_binding_value"
  /\ ~op.is_throw
  /\ ~IsDeclarative(heap, op.obj)
  /\ Nearest(heap, heap[op.obj].binding, op.pname) = NoProperty
  /\ ret = UNDEFINED_COMPLETION

\* the binding is immutable and was initialised
IsInitialised(prop) == prop # NoProperty /\ ~prop.writable /\ prop.value.t # "empty"

\* C28: an immutable binding is initialised at most once and is constant
\* afterwards.  CreateImmutableBinding makes a binding that is not writable
\* and not configurable, with the value empty; InitializeImmutableBinding
\* gives an uninitialised binding its value, and on an initialised one its
\* assertion fails; SetMutableBinding (strict or not) and DeleteBinding leave
\* an initialised immutable binding as it is, DeleteBinding returns false, and
\* GetBindingValue returns the value it was initialised with.
C28_ImmutableBinding ==
  [][ LET e      == op'.obj
          n      == op'.pname
          before == Own(heap, e, n)
          after  == Own(heap', e, n)
      IN /\ op'.name = "create_immutable_binding" =>
              /\ IsData(after)
              /\ ~after.writable /\ ~after.configurable
              /\ after.value = MkValue("empty", 0)
         /\ op'.name = "initialize_immutable_binding" =>
              IF IsUninitialised(before)
              THEN /\ fatal' = "none"
                   /\ after = [before EXCEPT !.value = op'.value]
              ELSE \E o \in ecma_op_initialize_immutable_binding(heap, e, n, op'.value) :
                     o.fatal = "assert" /\ o.heap = heap
         /\ ( /\ op'.name \in {"set_mutable_binding", "delete_binding", "get_binding_value"}
              /\ IsDeclarative(heap, e)
              /\ IsInitialised(before) ) =>
              /\ after = before
              /\ fatal' = "none"
              /\ op'.name = "delete_binding" => ret' = FALSE_COMPLETION
              /\ op'.name = "get_binding_value" => ret' = MkCompletion("normal", before.value)
    ]_vars

\* SetMutableBinding with S true was called on an initialised immutable
\* binding with another value: the TypeError, and the binding kept its value
C28_Witness ==
  /\ op.name = "set_mutable_binding"
  /\ op.is_throw
  /\ IsDeclarative(heap, op.obj)
  /\ IsInitialised(Own(heap, op.obj, op.pname))
  /\ Own(heap, op.obj, op.pname).value # op.value
  /\ ret = TYPE_ERROR

\* InitializeImmutableBinding was called a second time and its assertion failed
C28_WitnessSecond ==
  /\ op.name = "initialize_immutable_binding"
  /\ IsInitialised(Own(heap, op.obj, op.pname))
  /\ fatal = "assert"

\* DeleteBinding was called on an initialised immutable binding: false
C28_WitnessDelete ==
  /\ op.name = "delete_binding"
  /\ IsDeclarative(heap, op.obj)
  /\ IsInitialised(Own(heap, op.obj, op.pname))
  /\ ret = FALSE_COMPLETION

\* C29: SetMutableBinding(name, V, S) on a declarative environment replaces
\* the value of a writable binding by V; a binding that is not writable keeps
\* its value, and the result is the TypeError throw when S is true and the
\* normal-empty completion when S is false.  On an object-bound environment
\* it is [[Put]](name, V, S) on the binding object: the throw completion when
\* [[Put]] throws and normal-empty otherwise, also when [[Put]] returned false.
C29_SetMutableBinding ==
  [][ op'.name = "set_mutable_binding" =>
        LET e      == op'.obj
            n      == op'.pname
            V      == op'.value
            S      == op'.is_throw
            before == Own(heap, e, n)
            b      == heap[e].binding
        IN /\ fatal' = "none"
           /\ IF IsDeclarative(heap, e)
              THEN IF before.writable
                   THEN /\ Own(heap', e, n) = [before EXCEPT !.value = V]
                        /\ ret' = EMPTY_COMPLETION
                   ELSE /\ heap' = heap
                        /\ ret' = IF S THEN TYPE_ERROR ELSE EMPTY_COMPLETION
              ELSE \E put \in ecma_op_general_object_put(heap, b, n, V, S) :
                     /\ heap' = put.heap
                     /\ calls' = put.calls
                     /\ put.ret.type \in {"normal", "throw"}
                     /\ ret' = IF put.ret.type = "throw" THEN put.ret ELSE EMPTY_COMPLETION
    ]_vars

\* SetMutableBinding with S false was called on the object-bound environment
\* for a property that is not writable: [[Put]] returned false, the result
\* is normal-empty and the property kept its value
C29_Witness ==
  /\ op.name = "set_mutable_binding"
  /\ ~op.is_throw
  /\ ~IsDeclarative(heap, op.obj)
  /\ IsData(Own(heap, heap[op.obj].binding, op.pname))
  /\ ~Own(heap, heap[op.obj].binding, op.pname).writable
  /\ Own(heap, heap[op.obj].binding, op.pname).value # op.value
  /\ ret = EMPTY_COMPLETION

\* the same call with S true: the TypeError of [[Put]]
C29_WitnessThrow ==
  /\ op.name = "set_mutable_binding"
  /\ op.is_throw
  /\ ~IsDeclarative(heap, op.obj)
  /\ ret = TYPE_ERROR

\* a writable binding of a declarative environment got the value
C29_WitnessAssigned ==
  /\ op.name = "set_mutable_binding"
  /\ IsDeclarative(heap, op.obj)
  /\ Own(heap, op.obj, op.pname).writable
  /\ Own(heap, op.obj, op.pname).value = op.value
  /\ ret = EMPTY_COMPLETION

\* the environment of the chain of e that binds n, NULL when none does
RECURSIVE Resolved(_, _, _)
Resolved(h, e, n) ==
  IF e = NULL THEN NULL
  ELSE IF (IF IsDeclarative(h, e) THEN Own(h, e, n) ELSE Nearest(h, h[e].binding, n))
            # NoProperty
  THEN e
  ELSE Resolved(h, h[e].proto, n)

\* the properties of the list that are not named n, in their order
WithoutName(props, n) == SelectSeq(props, LAMBDA prop : prop.name # n)

\* C30: DeleteBinding(name) on a declarative environment returns true and
\* changes nothing when the binding is absent, returns false and changes
\* nothing when it is not configurable, and otherwise removes exactly that
\* binding and returns true; on an object-bound environment it is
\* [[Delete]](name, false) on the binding object and never throws.  delete_var
\* writes that result to its destination register, and writes true without
\* a change of any environment when the identifier is unresolvable.
C30_DeleteBinding ==
  [][ /\ op'.name = "delete_binding" =>
           LET e      == op'.obj
               n      == op'.pname
               before == Own(heap, e, n)
           IN /\ fatal' = "none"
              /\ ret'.type = "normal"
              /\ IF ~IsDeclarative(heap, e)
                 THEN [heap |-> heap', ret |-> ret', calls |-> calls', fatal |-> fatal']
                        \in ecma_op_general_object_delete(heap, heap[e].binding, n, FALSE)
                 ELSE IF before = NoProperty
                 THEN ret' = TRUE_COMPLETION /\ heap' = heap
                 ELSE IF ~before.configurable
                 THEN ret' = FALSE_COMPLETION /\ heap' = heap
                 ELSE /\ ret' = TRUE_COMPLETION
                      /\ heap' = [heap EXCEPT ![e].props = WithoutName(@, n)]
      /\ op'.name = "delete_var" =>
           LET n    == Literals[op'.opdata.name + 1].str
               base == Resolved(heap, frames[1].lex_env_p, n)
               dst  == frames'[1].regs[op'.opdata.lhs - MIN_REG + 1]
           IN /\ fatal' = "none"
              /\ ret' = EMPTY_COMPLETION
              /\ frames'[1].pos = frames[1].pos + 1
              /\ IF base = NULL
                 THEN dst = MkValue("boolean", 1) /\ heap' = heap
                 ELSE \E deleted \in ecma_op_delete_binding(heap, base, n) :
                        heap' = deleted.heap /\ dst = deleted.ret.value
    ]_vars

\* DeleteBinding was called for a mutable binding of a declarative
\* environment that is not configurable: false, and the binding is there
C30_Witness ==
  /\ op.name = "delete_binding"
  /\ IsDeclarative(heap, op.obj)
  /\ Own(heap, op.obj, op.pname) # NoProperty
  /\ Own(heap, op.obj, op.pname).writable
  /\ ~Own(heap, op.obj, op.pname).configurable
  /\ ret = FALSE_COMPLETION

\* the first opcode of the frame was a delete_var of q, which nothing
\* binds: true is in the destination register
C30_WitnessUnresolvable ==
  /\ op.name = "delete_var"
  /\ op.opdata.name = 1
  /\ frames[1].pos = 1
  /\ heap[2].props = <<>>
  /\ Resolved(heap, frames[1].lex_env_p, "q") = NULL
  /\ frames[1].regs[op.opdata.lhs - MIN_REG + 1] = MkValue("boolean", 1)

\* a delete_var found a binding that is not configurable and wrote false
C30_WitnessDeleteVar ==
  /\ op.name = "delete_var"
  /\ Resolved(heap, frames[1].lex_env_p, Literals[op.opdata.name + 1].str) # NULL
  /\ frames[1].regs[op.opdata.lhs - MIN_REG + 1] = MkValue("boolean", 0)
(***************************************************************************)
(* Functions and frames.                                                   *)
(***************************************************************************)
\* the function objects made of byte-code in a heap
FunctionObjects(h) ==
  { i \in DOMAIN h : h[i].lexenv = "none" /\ h[i].class = "Function" }

\* the opcode at a counter of the program is the marker of strict code
IsStrictCodeMarker(counter) ==
  /\ program[counter + 1].op_idx = "meta"
  /\ program[counter + 1].type = "OPCODE_META_TYPE_STRICT_CODE"

\* the loop is about to dispatch an opcode that makes a function
MakingFunction ==
  \/ Dispatching("func_expr_n")
  \/ Dispatching("func_decl_n")

\* C31: a function made by func_decl_n or func_expr_n is strict exactly when
\* the frame that makes it is strict or the opcode after its meta
\* function_end is the marker of strict code, so that no function made in
\* a strict frame is non-strict; the frame of the program is strict
\* exactly when the first opcode of the program is the marker.
C31_Strictness ==
  /\ [][ (MakingFunction /\ frames' # frames /\ fatal' = "none") =>
           LET int_data == frames[Len(frames)]
               made == FunctionObjects(heap') \ FunctionObjects(heap)
           IN /\ Cardinality(made) = 1
              /\ \A f \in made :
                   /\ heap'[f].is_strict
                        = (int_data.is_strict \/ IsStrictCodeMarker(int_data.pos + 2))
                   /\ int_data.is_strict => heap'[f].is_strict ]_vars
  /\ [](run = "running" /\ frames # <<>> => (frames[1].is_strict <=> IsStrictCodeMarker(0)))

\* a strict frame has made a function whose code has no marker: it is strict
C31_Witness ==
  /\ op.name \in {"func_expr_n", "func_decl_n"}
  /\ fatal = "none"
  /\ frames # <<>>
  /\ frames[Len(frames)].is_strict
  /\ \E f \in FunctionObjects(heap) :
       /\ f = Len(heap)
       /\ heap[f].is_strict
       /\ ~IsStrictCodeMarker(heap[f].code - 1)

\* a frame that is not strict has made a function whose code has the marker
C31_WitnessMarked ==
  /\ op.name = "func_expr_n"
  /\ frames # <<>>
  /\ ~frames[Len(frames)].is_strict
  /\ heap[Len(heap)].lexenv = "none"
  /\ heap[Len(heap)].is_strict
  /\ IsStrictCodeMarker(heap[Len(heap)].code - 1)

\* a frame that is not strict has made a function that is not strict, and
\* the frame of the program is not strict
C31_WitnessNonStrict ==
  /\ op.name = "func_decl_n"
  /\ Len(frames) = 1
  /\ ~IsStrictCodeMarker(0)
  /\ ~frames[1].is_strict
  /\ \E f \in FunctionObjects(heap) : ~heap[f].is_strict

\* the run_int_loop of the top frame has ended
LoopEnded ==
  /\ run = "running"
  /\ fatal = "none"
  /\ frames # <<>>
  /\ frames[Len(frames)].loops = <<>>
  /\ ~ecma_is_completion_value_normal(ret)

\* C32: the frame that run_int_from_pos adds is freed when its loop has
\* ended, whatever the completion (normal, throw, return, exit), and only
\* then: a step frees at most the top frame and leaves the frames below the
\* caller as they were, a step adds at most one frame on top, and when the
\* run_int_from_pos of the program has returned no frame is left, however
\* deep the calls inside it were.
C32_FrameStack ==
  /\ [][ ((LoopEnded /\ vars' # vars) =>
             (/\ Len(frames') = Len(frames) - 1
              /\ \A i \in 1..(Len(frames) - 2) : frames'[i] = frames[i]))
         /\ ((Len(frames') < Len(frames)) =>
               (LoopEnded /\ Len(frames') = Len(frames) - 1))
         /\ ((Len(frames') > Len(frames)) =>
               (/\ Len(frames') = Len(frames) + 1
                /\ \A i \in 1..(Len(frames) - 1) : frames'[i] = frames[i]
                /\ (frames = <<>> \/ frames'[Len(frames)].loops # <<>>))) ]_vars
  /\ [](run \in {"ended", "done"} => frames = <<>>)

\* the frame of a called function was freed after a throw, and the caller
\* is the top frame again
C32_Witness ==
  /\ run = "running"
  /\ op.name = "call_n"
  /\ Len(frames) = 1
  /\ ecma_is_completion_value_throw(ret)

\* the frame of a called function was freed after a return
C32_WitnessReturn ==
  /\ run = "running"
  /\ op.name = "call_n"
  /\ Len(frames) = 1
  /\ frames[1].regs[2] = ObjectValue(GLOBAL_OBJECT)
  /\ ecma_is_completion_value_empty(ret)

\* the frame of a called function was freed after an exit
C32_WitnessExit ==
  /\ run = "running"
  /\ op.name = "call_n"
  /\ Len(frames) = 1
  /\ ecma_is_completion_value_exit(ret)

\* the frame of a function called by a called function was freed, and the
\* frames of the two callers are left
C32_WitnessNested ==
  /\ run = "running"
  /\ op.name = "call_n"
  /\ Len(frames) = 2
  /\ read_opcode(frames[2].pos - 1).op_idx = "call_n"

\* the program has ended after two nested calls and no frame is left
C32_WitnessEnded ==
  /\ run = "done"
  /\ frames = <<>>
  /\ Cardinality({ e \in DOMAIN heap : heap[e].lexenv = "declarative"
                                       /\ heap[e].props = <<>> }) >= 2

(***************************************************************************)
(* SameValue.                                                              *)
(***************************************************************************)
\* the characters of a string value
Characters(value) ==
  IF value.v > MAGIC_STRING_BASE
  THEN ECMA_MAGIC_STRINGS[value.v - MAGIC_STRING_BASE]
  ELSE Literals[value.v + 1].str

\* C33: SameValue is reflexive and symmetric; values of different types are
\* never the same; two NaN are the same; +0 and -0 are not the same;
\* strings are the same exactly when their characters are; objects are the
\* same exactly when they are the same object.
C33_SameValue ==
  op.name = "same_value" =>
    LET x == op.value
        y == op.other
        same == ret = TRUE_COMPLETION
    IN /\ ret \in {TRUE_COMPLETION, FALSE_COMPLETION}
       /\ same = ecma_op_same_value(x, y)
       /\ ecma_op_same_value(x, x)
       /\ ecma_op_same_value(y, y)
       /\ same = ecma_op_same_value(y, x)
       /\ x = y => same
       /\ x.t # y.t => ~same
       /\ (x.t = "number" /\ y.t = "number" /\ x.v \in {NUM_NAN_A, NUM_NAN_B}
             /\ y.v \in {NUM_NAN_A, NUM_NAN_B}) => same
       /\ ({x, y} = {NumberValue(NUM_PZERO), NumberValue(NUM_NZERO)}) => ~same
       /\ (x.t = "string" /\ y.t = "string") => (same <=> Characters(x) = Characters(y))
       /\ (x.t = "object" /\ y.t = "object") => (same <=> x.v = y.v)

\* SameValue was called on two strings with the same characters, one held
\* by a literal and one a magic string: true
C33_Witness ==
  /\ op.name = "same_value"
  /\ op.value.t = "string"
  /\ op.other.t = "string"
  /\ op.value # op.other
  /\ Characters(op.value) = Characters(op.other)
  /\ ret = TRUE_COMPLETION

\* SameValue was called on a NaN and itself: true
C33_WitnessNaN ==
  /\ op.name = "same_value"
  /\ op.value = NumberValue(NUM_NAN_A)
  /\ op.other = NumberValue(NUM_NAN_A)
  /\ ret = TRUE_COMPLETION

\* SameValue was called on +0 and -0: false
C33_WitnessZeros ==
  /\ op.name = "same_value"
  /\ op.value = NumberValue(NUM_PZERO)
  /\ op.other = NumberValue(NUM_NZERO)
  /\ ret = FALSE_COMPLETION

\* SameValue was called on two different objects: false
C33_WitnessObjects ==
  /\ op.name = "same_value"
  /\ op.value = ObjectValue(USER_OBJECT)
  /\ op.other = ObjectValue(DATE_OBJECT)
  /\ ret = FALSE_COMPLETION

(***************************************************************************)
(* Descriptors and objects.                                                *)
(***************************************************************************)
\* the object has a property of the name, its own or inherited
Has(h, o, n) == Nearest(h, o, n) # NoProperty

\* no function that the operation called has thrown
NoCallThrew == \A i \in 1..Len(calls) : calls[i].completion.type # "throw"

\* C34: ToPropertyDescriptor returns a TypeError throw for an argument that
\* is no object.  For an object, when it completes normally, each of the
\* six flags of the result is true exactly when the object has a property
\* of that name, its own or inherited, the fields whose flag is false are
\* those of the empty descriptor, and the result does not have get or set
\* together with value or writable; when the object has get or set
\* together with value or writable and no getter threw, it returns a
\* TypeError throw.
C34_ToPropertyDescriptor ==
  (op.name = "to_property_descriptor" /\ fatal = "none") =>
    IF op.value.t # "object"
    THEN ret = TYPE_ERROR
    ELSE LET o == op.value.v
             d == op.desc
             empty == ecma_make_empty_property_descriptor
         IN /\ ret = EMPTY_COMPLETION \/ ret.type = "throw"
            /\ ret = EMPTY_COMPLETION =>
                 /\ d.is_enumerable_defined = Has(heap, o, "enumerable")
                 /\ d.is_configurable_defined = Has(heap, o, "configurable")
                 /\ d.is_value_defined = Has(heap, o, "value")
                 /\ d.is_writable_defined = Has(heap, o, "writable")
                 /\ d.is_get_defined = Has(heap, o, "get")
                 /\ d.is_set_defined = Has(heap, o, "set")
                 /\ ~d.is_enumerable_defined => d.is_enumerable = empty.is_enumerable
                 /\ ~d.is_configurable_defined => d.is_configurable = empty.is_configurable
                 /\ ~d.is_value_defined => d.value = empty.value
                 /\ ~d.is_writable_defined => d.is_writable = empty.is_writable
                 /\ ~d.is_get_defined => d.get_p = empty.get_p
                 /\ ~d.is_set_defined => d.set_p = empty.set_p
                 /\ ~(IsAccessorDescriptor(d) /\ IsDataDescriptor(d))
            /\ ( /\ Has(heap, o, "get") \/ Has(heap, o, "set")
                 /\ Has(heap, o, "value") \/ Has(heap, o, "writable")
                 /\ NoCallThrew ) => ret = TYPE_ERROR

\* ToPropertyDescriptor completed normally on an object that has some of
\* the properties, one of them inherited, and not others
C34_Witness ==
  /\ op.name = "to_property_descriptor"
  /\ op.value = ObjectValue(1)
  /\ ret = EMPTY_COMPLETION
  /\ op.desc.is_enumerable_defined
  /\ Own(heap, 1, "enumerable") = NoProperty
  /\ op.desc.is_value_defined
  /\ Own(heap, 1, "value") # NoProperty
  /\ ~op.desc.is_configurable_defined

\* the object has get and value and no getter threw: TypeError
C34_WitnessBoth ==
  /\ op.name = "to_property_descriptor"
  /\ op.value = ObjectValue(1)
  /\ Has(heap, 1, "get")
  /\ Has(heap, 1, "value")
  /\ Nearest(heap, 1, "get").value = ObjectValue(11)
  /\ ret = TYPE_ERROR

\* the argument is a number: TypeError
C34_WitnessNotObject ==
  /\ op.name = "to_property_descriptor"
  /\ op.value = NumberValue(NUM_ONE)
  /\ ret = TYPE_ERROR

\* the result is an accessor descriptor
C34_WitnessAccessor ==
  /\ op.name = "to_property_descriptor"
  /\ ret = EMPTY_COMPLETION
  /\ op.desc.is_get_defined
  /\ op.desc.get_p = 11
  /\ op.desc.is_set_defined
  /\ op.desc.is_enumerable_defined

\* the names of the own properties of an object
OwnNames(h, o) == { h[o].props[i].name : i \in 1..Len(h[o].props) }

\* the own property is a data property with the value, writable,
\* enumerable and configurable
IsPlainData(prop, value) ==
  /\ IsData(prop)
  /\ prop.value = value
  /\ prop.writable
  /\ prop.enumerable
  /\ prop.configurable

\* C35: for every argument descriptor, an accessor descriptor too, the
\* object FromPropertyDescriptor returns is a new extensible object that
\* has exactly the own properties value, writable, enumerable and
\* configurable, one of each, all of them data properties that are
\* writable, enumerable and configurable and hold the fields of the
\* argument, and never the properties get or set; the other objects are
\* left as they were.
C35_FromPropertyDescriptor ==
  [][ (Idle /\ op'.name = "from_property_descriptor") =>
        LET src == op'.desc
            o == Len(heap')
        IN /\ fatal' = "none"
           /\ ret' = MkCompletion("normal", ObjectValue(o))
           /\ o = Len(heap) + 1
           /\ \A other \in DOMAIN heap : heap'[other] = heap[other]
           /\ heap'[o].extensible
           /\ OwnNames(heap', o) = {"value", "writable", "enumerable", "configurable"}
           /\ Len(heap'[o].props) = 4
           /\ "get" \notin OwnNames(heap', o)
           /\ "set" \notin OwnNames(heap', o)
           /\ IsPlainData(Own(heap', o, "value"), src.value)
           /\ IsPlainData(Own(heap', o, "writable"), BooleanValue(src.is_writable))
           /\ IsPlainData(Own(heap', o, "enumerable"), BooleanValue(src.is_enumerable))
           /\ IsPlainData(Own(heap', o, "configurable"), BooleanValue(src.is_configurable))
    ]_vars

\* FromPropertyDescriptor was called on an accessor descriptor with a getter
\* and the object has the property value and no property get
C35_Witness ==
  /\ op.name = "from_property_descriptor"
  /\ op.desc.is_get_defined
  /\ op.desc.get_p = 11
  /\ ~op.desc.is_value_defined
  /\ fatal = "none"
  /\ Own(heap, Len(heap), "value") # NoProperty
  /\ Own(heap, Len(heap), "get") = NoProperty

\* FromPropertyDescriptor was called on a data descriptor
C35_WitnessData ==
  /\ op.name = "from_property_descriptor"
  /\ op.desc.is_value_defined
  /\ op.desc.is_writable
  /\ Own(heap, Len(heap), "writable").value = ECMA_SIMPLE_VALUE_TRUE

(***************************************************************************)
(* Properties of obj_decl.                                                 *)
(***************************************************************************)
\* the run_int_loop of an entry of obj_decl has ended
ObjDeclReturning ==
  /\ run = "running"
  /\ fatal = "none"
  /\ frames # <<>>
  /\ ~ecma_is_completion_value_normal(ret)
  /\ frames[Len(frames)].loops # <<>>
  /\ frames[Len(frames)].loops[Len(frames[Len(frames)].loops)].opdata.op_idx = "obj_decl"

\* the locals of the obj_decl whose entry is being processed
ObjDeclLocals == frames[Len(frames)].loops[Len(frames[Len(frames)].loops)]

\* the meta opcode of the entry
ObjDeclMeta == read_opcode(frames[Len(frames)].pos)

\* the inner loop that evaluated the entry ended in a throw
EntryLoopThrew == ecma_is_completion_value_throw(ret)

\* the inner loop ended at the meta opcode and the read of the value throws
EntryValueThrew ==
  /\ ecma_is_completion_value_meta(ret)
  /\ \A value_read \in get_variable_value_or_identifier(heap, frames[Len(frames)],
                                                        ObjDeclMeta.data_2) :
       ecma_is_completion_value_throw(value_read.ret)

\* the completions ToString of the name of the entry threw in the step:
\* the value was read and a conversion that made the calls of the step
\* ended in a throw
EntryNameThrows ==
  IF /\ ecma_is_completion_value_meta(ret)
     /\ ~EntryValueThrew
  THEN { name_str.ret :
           name_str \in { o \in ecma_op_to_string(
                                  heap, get_variable_value(frames[Len(frames)],
                                                           ObjDeclMeta.data_1).value) :
                            /\ o.calls = calls'
                            /\ o.fatal = "none"
                            /\ ecma_is_completion_value_throw(o.ret) } }
  ELSE {}

\* obj_decl has stopped with the completion and has not written the
\* destination register
ObjDeclStoppedWith(completion) ==
  /\ ret' = completion
  /\ frames'[Len(frames')].loops = SubSeq(frames[Len(frames)].loops, 1,
                                          Len(frames[Len(frames)].loops) - 1)
  /\ frames'[Len(frames')].regs = frames[Len(frames)].regs

\* C36: if anything throws while obj_decl processes a property entry - the
\* inner loop that evaluates the entry, the read of the value, or ToString
\* of the property name - obj_decl stops processing further entries,
\* returns that throw completion and does not write the new object to the
\* destination register.
C36_ThrowStops ==
  [][ (ObjDeclReturning /\ fatal' = "none") =>
        /\ (EntryLoopThrew => ObjDeclStoppedWith(ret))
        /\ (EntryValueThrew =>
              ObjDeclStoppedWith(ecma_make_throw_obj_completion_value(ECMA_ERROR_REFERENCE)))
        /\ (\A thrown \in EntryNameThrows : ObjDeclStoppedWith(thrown))
    ]_vars

\* the two cases of C36 the code does implement: a throw of the inner loop
\* and a throw of the read of the value end obj_decl with that throw, the
\* destination register unwritten
ObjDeclLoopOrValueThrowStops ==
  [][ (ObjDeclReturning /\ fatal' = "none") =>
        /\ (EntryLoopThrew => ObjDeclStoppedWith(ret))
        /\ (EntryValueThrew =>
              ObjDeclStoppedWith(ecma_make_throw_obj_completion_value(ECMA_ERROR_REFERENCE)))
    ]_vars

\* ToString of the name of the only entry threw, and obj_decl has ended
\* with an empty completion and the new object in the destination register
ObjDeclNameThrowSwallowed ==
  /\ op.name = "obj_decl"
  /\ op.opdata.list = 1
  /\ fatal = "none"
  /\ calls # <<>>
  /\ ecma_is_completion_value_throw(calls[1].completion)
  /\ ecma_is_completion_value_empty(ret)
  /\ frames # <<>>
  /\ frames[1].loops = <<>>
  /\ ecma_is_value_object(frames[1].regs[2])
  /\ frames[1].regs[2].v = Len(heap)
  /\ heap[Len(heap)].props = <<>>

\* the values the read of the value of the entry gives
EntryValues ==
  { value_read.ret.value :
      value_read \in { o \in get_variable_value_or_identifier(heap, frames[Len(frames)],
                                                              ObjDeclMeta.data_2) :
                         ecma_is_completion_value_normal(o.ret) } }

\* the names of the entry: what ToString made of the name register in the
\* step, when it made one
EntryNames ==
  { name_str.ret.value :
      name_str \in { o \in ecma_op_to_string(
                             heap, get_variable_value(frames[Len(frames)],
                                                      ObjDeclMeta.data_1).value) :
                       /\ o.calls = calls'
                       /\ o.fatal = "none"
                       /\ ecma_is_completion_value_normal(o.ret) } }

\* the own properties of the object that have the name, counted
CountNamed(h, o, n) == Cardinality({ i \in 1..Len(h[o].props) : h[o].props[i].name = n })

\* the own property is an accessor property with the getter and the
\* setter, enumerable and configurable
IsPlainAccessor(prop, get_p, set_p) ==
  /\ IsAccessor(prop)
  /\ prop.get_p = get_p
  /\ prop.set_p = set_p
  /\ prop.enumerable
  /\ prop.configurable

\* C37: in obj_decl a data entry for a new key makes a data property with
\* the value of the entry that is writable, enumerable and configurable,
\* and so does a data entry for a key that is a data property already when
\* the code is not strict: the last value wins; a getter (a setter) entry
\* for a new key makes an accessor property with that getter (setter)
\* alone, and for a key that is an accessor property already it adds the
\* getter (setter) and keeps the other function, so that a getter and a
\* setter entry for one key, in either order, give one accessor property
\* that holds both, enumerable and configurable.  The object has one
\* property of the name afterwards.
C37_Entries ==
  [][ (ObjDeclReturning /\ fatal' = "none" /\ ecma_is_completion_value_meta(ret)) =>
        \A name \in EntryNames, value \in EntryValues :
          LET o == ObjDeclLocals.obj_p
              type == ObjDeclMeta.type
              previous == Own(heap, o, name)
              now == Own(heap', o, name)
          IN /\ (/\ type = "OPCODE_META_TYPE_VARG_PROP_DATA"
                 /\ (\/ previous = NoProperty
                     \/ (IsData(previous) /\ ~frames[Len(frames)].is_strict)))
                  => (IsPlainData(now, value) /\ CountNamed(heap', o, name) = 1)
             /\ (type = "OPCODE_META_TYPE_VARG_PROP_GETTER" /\ ~IsData(previous))
                  => (/\ IsPlainAccessor(now, value.v, previous.set_p)
                      /\ CountNamed(heap', o, name) = 1)
             /\ (type = "OPCODE_META_TYPE_VARG_PROP_SETTER" /\ ~IsData(previous))
                  => (/\ IsPlainAccessor(now, previous.get_p, value.v)
                      /\ CountNamed(heap', o, name) = 1)
    ]_vars

\* obj_decl has ended without a throw: its object is in the destination
\* register
ObjDeclEnded ==
  /\ op.name = "obj_decl"
  /\ run = "running"
  /\ fatal = "none"
  /\ ecma_is_completion_value_empty(ret)
  /\ frames # <<>>
  /\ frames[1].loops = <<>>
  /\ ecma_is_value_object(frames[1].regs[2])
  /\ frames[1].regs[2].v = Len(heap)

\* the kinds of the entries of the program, in their order
RECURSIVE EntryKinds(_)
EntryKinds(code) ==
  IF code = <<>> THEN <<>>
  ELSE IF code[1].op_idx = "meta" THEN <<code[1].type>> \o EntryKinds(Tail(code))
  ELSE EntryKinds(Tail(code))

\* a getter entry, then a setter entry for the same key: the object has one
\* property, an accessor property that holds both
C37_Witness ==
  /\ ObjDeclEnded
  /\ Len(program) = 4
  /\ EntryKinds(program) = <<"OPCODE_META_TYPE_VARG_PROP_GETTER",
                             "OPCODE_META_TYPE_VARG_PROP_SETTER">>
  /\ Len(heap[Len(heap)].props) = 1
  /\ IsPlainAccessor(Own(heap, Len(heap), "p"), 11, 11)

\* a setter entry, then a getter entry for the same key
C37_WitnessSetterFirst ==
  /\ ObjDeclEnded
  /\ Len(program) = 4
  /\ EntryKinds(program) = <<"OPCODE_META_TYPE_VARG_PROP_SETTER",
                             "OPCODE_META_TYPE_VARG_PROP_GETTER">>
  /\ Len(heap[Len(heap)].props) = 1
  /\ IsPlainAccessor(Own(heap, Len(heap), "q"), 11, 11)

\* the first of the two is there alone after its entry: a getter without a
\* setter
C37_WitnessGetterAlone ==
  /\ op.name = "obj_decl"
  /\ fatal = "none"
  /\ frames # <<>>
  /\ frames[1].loops # <<>>
  /\ frames[1].loops[1].prop_index = 1
  /\ IsPlainAccessor(Own(heap, frames[1].loops[1].obj_p, "p"), 11, NULL)

\* two data entries for one key in code that is not strict: one property,
\* with the value of the second entry
C37_WitnessRepeatedData ==
  /\ ObjDeclEnded
  /\ ~frames[1].is_strict
  /\ Len(program) = 5
  /\ program[3].op_idx = "assignment"
  /\ program[3].var_left = MAX_REG
  /\ EntryKinds(program) = <<"OPCODE_META_TYPE_VARG_PROP_DATA",
                             "OPCODE_META_TYPE_VARG_PROP_DATA">>
  /\ Len(heap[Len(heap)].props) = 1
  /\ IsPlainData(Own(heap, Len(heap), "1"), NumberValue(NUM_PZERO))

\* one data entry whose value is a function
C37_WitnessData ==
  /\ ObjDeclEnded
  /\ Len(program) = 3
  /\ IsPlainData(Own(heap, Len(heap), "q"), ObjectValue(11))

(***************************************************************************)
(* Properties of objects that are not extensible.                          *)
(***************************************************************************)
\* C38: an object that is not extensible gets no own property of a new
\* name: whatever the operation called - [[Put]] and [[DefineOwnProperty]]
\* with any value, descriptor and throw flag among them - every own name
\* the object has after the call it had before, and the object is still not
\* extensible; so no sequence of calls adds a name.
C38_NamesNeverGrow ==
  [][ \A o \in DOMAIN heap :
        ~heap[o].extensible =>
          /\ o \in DOMAIN heap'
          /\ ~heap'[o].extensible
          /\ OwnNames(heap', o) \subseteq OwnNames(heap, o)
    ]_vars

\* [[DefineOwnProperty]] was called on an object that is not extensible for
\* a name it does not have, with a throw flag, and has thrown: the object
\* has no property of the name
C38_Witness ==
  /\ op.name = "define_own_property"
  /\ op.is_throw
  /\ ~heap[op.obj].extensible
  /\ ret = TYPE_ERROR
  /\ op.pname \notin OwnNames(heap, op.obj)
  /\ "q" \in OwnNames(heap, op.obj)

\* [[Put]] was called on an object that is not extensible and has no own
\* property of the name but inherits a writable data property of the name
C38_WitnessPut ==
  /\ op.name = "put"
  /\ ~op.is_throw
  /\ ~heap[op.obj].extensible
  /\ op.pname \notin OwnNames(heap, op.obj)
  /\ heap[op.obj].proto = 2
  /\ IsData(Own(heap, 2, op.pname))
  /\ Own(heap, 2, op.pname).writable

\* [[DefineOwnProperty]] has changed a property the object that is not
\* extensible has: the names are those it had
C38_WitnessChanged ==
  /\ op.name = "define_own_property"
  /\ ~heap[op.obj].extensible
  /\ ret = TRUE_COMPLETION
  /\ op.desc.is_value_defined
  /\ IsData(Own(heap, op.obj, op.pname))
  /\ Own(heap, op.obj, op.pname).value = op.desc.value
  /\ op.desc.value # NumberValue(NUM_PZERO)

(***************************************************************************)
(* Properties of var_decl.                                                 *)
(***************************************************************************)
\* the step is a var_decl of the frame
VarDeclStep == Idle /\ op'.name = "var_decl"

\* the name the var_decl of the step declares
VarDeclName == ecma_new_ecma_string_from_lit_index(op'.opdata.variable_name)

\* the object that holds the bindings of the environment: the environment
\* itself, or the binding object of an object-bound one
BindingHolder(h, lex_env_p) ==
  IF ecma_get_lex_env_type(h, lex_env_p) = ECMA_LEXICAL_ENVIRONMENT_DECLARATIVE
  THEN lex_env_p
  ELSE ecma_get_lex_env_binding_object(h, lex_env_p)

\* the heap has the same cells but for the properties of the object
SameButPropertiesOf(h1, h2, o) ==
  /\ DOMAIN h1 = DOMAIN h2
  /\ \A other \in DOMAIN h1 : other # o => h1[other] = h2[other]
  /\ [h1[o] EXCEPT !.props = <<>>] = [h2[o] EXCEPT !.props = <<>>]

\* var_decl has left the heap as it was
VarDeclKept == heap' = heap

\* var_decl has made a mutable binding of the name: its value is undefined,
\* it is deletable exactly when the frame is eval code, and in a
\* declarative environment it is writable and not enumerable
VarDeclCreated ==
  LET lex_env_p == frames[1].lex_env_p
      holder == BindingHolder(heap, lex_env_p)
      binding == Own(heap', holder, VarDeclName)
  IN /\ SameButPropertiesOf(heap, heap', holder)
     /\ Len(heap'[holder].props) = Len(heap[holder].props) + 1
     /\ OwnNames(heap', holder) = OwnNames(heap, holder) \cup {VarDeclName}
     /\ \A n \in OwnNames(heap, holder) : Own(heap', holder, n) = Own(heap, holder, n)
     /\ IsData(binding)
     /\ binding.value = ECMA_SIMPLE_VALUE_UNDEFINED
     /\ binding.writable
     /\ binding.configurable = frames[1].is_eval_code
     /\ (ecma_get_lex_env_type(heap, lex_env_p) = ECMA_LEXICAL_ENVIRONMENT_DECLARATIVE
           => ~binding.enumerable)

\* the completion of var_decl is normal-empty and pos is one more
VarDeclCompleted ==
  /\ fatal' = "none"
  /\ ret' = ecma_make_empty_completion_value
  /\ frames' = <<[frames[1] EXCEPT !.pos = @ + 1]>>

\* a second var_decl for the name would change nothing but pos
VarDeclAgainKeeps ==
  \A again \in opfunc_var_decl(heap', op'.opdata, frames'[1]) :
    /\ again.heap = heap'
    /\ again.fatal = "none"
    /\ again.ret = ecma_make_empty_completion_value
    /\ again.int_data = [frames'[1] EXCEPT !.pos = @ + 1]

\* C39: var_decl never overwrites: when the current lexical environment has
\* a binding for the name, the binding and everything else are left as they
\* were; otherwise var_decl creates a mutable binding whose value is
\* undefined and which is deletable exactly when the frame is eval code
\* (writable and not enumerable in a declarative environment).  In both
\* cases the completion is normal-empty and pos advances by one, and a
\* second var_decl for the name has no further effect.
C39_NeverOverwrites ==
  [][ VarDeclStep =>
        /\ VarDeclCompleted
        /\ IF ecma_op_has_binding(heap, frames[1].lex_env_p, VarDeclName)
           THEN VarDeclKept
           ELSE VarDeclCreated
        /\ VarDeclAgainKeeps
    ]_vars

\* the object that would hold the new binding takes new properties: the
\* environment is declarative, or its binding object is extensible
VarDeclCanCreate ==
  \/ ecma_get_lex_env_type(heap, frames[1].lex_env_p) = ECMA_LEXICAL_ENVIRONMENT_DECLARATIVE
  \/ ecma_get_object_extensible(heap, BindingHolder(heap, frames[1].lex_env_p))

\* what the code does: the statement of C39 holds whenever the name is
\* bound or the binding can be created
VarDeclNeverOverwritesWhenCreatable ==
  [][ (VarDeclStep /\ (\/ ecma_op_has_binding(heap, frames[1].lex_env_p, VarDeclName)
                       \/ VarDeclCanCreate)) =>
        /\ VarDeclCompleted
        /\ IF ecma_op_has_binding(heap, frames[1].lex_env_p, VarDeclName)
           THEN VarDeclKept
           ELSE VarDeclCreated
        /\ VarDeclAgainKeeps
    ]_vars

\* var_decl for a name that is not bound, on the environment of an object
\* that is not extensible: the assertion on the completion of
\* CreateMutableBinding has failed
VarDeclAssertionFailed ==
  /\ op.name = "var_decl"
  /\ fatal = "assert"
  /\ ecma_get_lex_env_type(heap, frames[1].lex_env_p) = ECMA_LEXICAL_ENVIRONMENT_OBJECTBOUND
  /\ ~ecma_get_object_extensible(heap, BindingHolder(heap, frames[1].lex_env_p))
  /\ ~ecma_op_has_binding(heap, frames[1].lex_env_p,
                          ecma_new_ecma_string_from_lit_index(op.opdata.variable_name))

\* the same var_decl in a build without assertions: it has completed and
\* there is no binding of the name
VarDeclNothingCreated ==
  /\ op.name = "var_decl"
  /\ fatal = "none"
  /\ ecma_is_completion_value_empty(ret)
  /\ frames[1].pos = 1
  /\ ecma_get_lex_env_type(heap, frames[1].lex_env_p) = ECMA_LEXICAL_ENVIRONMENT_OBJECTBOUND
  /\ ~ecma_get_object_extensible(heap, BindingHolder(heap, frames[1].lex_env_p))
  /\ ~ecma_op_has_binding(heap, frames[1].lex_env_p,
                          ecma_new_ecma_string_from_lit_index(op.opdata.variable_name))

(***************************************************************************)
(* Properties of function expressions.                                     *)
(***************************************************************************)
\* the binding of the environment is immutable and initialised with the
\* value: neither writable nor deletable
IsImmutableBinding(prop, name, value) ==
  /\ IsData(prop)
  /\ prop.name = name
  /\ prop.value = value
  /\ ~prop.writable
  /\ ~prop.configurable

\* the opcode is one that ends the body of a function
IsFunctionEnd(opcode) == opcode.op_idx \in {"ret", "retval", "throw_value", "exitval"}

\* C40: func_expr_n with a function name makes a new declarative
\* environment whose outer environment is the current environment of the
\* frame, with one binding, the immutable binding of the name, initialised
\* with the new function object, and makes that environment the scope of
\* the function; the current environment gets no binding and stays the
\* current environment; the function object is written to the destination
\* register and pos is the end of the code of the function.  Without a
\* name no environment is made and the scope is the current environment.
C40_NamedFunctionExpression ==
  [][ (Dispatching("func_expr_n") /\ frames' # frames) =>
        LET int_data == frames[Len(frames)]
            opdata == read_opcode(int_data.pos)
            left == frames'[Len(frames')]
            func_obj_p == Len(heap')
            meta_opcode == read_opcode(int_data.pos + 1)
        IN /\ fatal' = "none"
           /\ ecma_is_completion_value_empty(ret')
           /\ Len(frames') = Len(frames)
           /\ \A o \in DOMAIN heap : heap'[o] = heap[o]
           /\ left.lex_env_p = int_data.lex_env_p
           /\ left.regs[opdata.lhs - int_data.min_reg_num + 1] = ObjectValue(func_obj_p)
           /\ heap'[func_obj_p].lexenv = "none"
           /\ heap'[func_obj_p].class = "Function"
           /\ left.pos = int_data.pos + 1 + meta_opcode.data_1 * 256 + meta_opcode.data_2
           /\ left.pos > heap'[func_obj_p].code
           /\ IsFunctionEnd(read_opcode(left.pos - 1))
           /\ IF opdata.name_lit_idx # INVALID_VALUE
              THEN LET scope_p == Len(heap) + 1
                       name == Literals[opdata.name_lit_idx + 1].str
                   IN /\ Len(heap') = Len(heap) + 2
                      /\ heap'[scope_p].lexenv = ECMA_LEXICAL_ENVIRONMENT_DECLARATIVE
                      /\ heap'[scope_p].proto = int_data.lex_env_p
                      /\ Len(heap'[scope_p].props) = 1
                      /\ IsImmutableBinding(heap'[scope_p].props[1], name,
                                            ObjectValue(func_obj_p))
                      /\ heap'[func_obj_p].scope = scope_p
              ELSE /\ Len(heap') = Len(heap) + 1
                   /\ heap'[func_obj_p].scope = int_data.lex_env_p
    ]_vars

\* a named function expression has been executed: the scope of the
\* function is a new environment inside the current one that binds the
\* name to the function, and the current environment has no such binding
C40_Witness ==
  /\ op.name = "func_expr_n"
  /\ op.opdata.name_lit_idx = 0
  /\ fatal = "none"
  /\ Len(frames) = 1
  /\ heap[Len(heap)].lexenv = "none"
  /\ heap[Len(heap)].class = "Function"
  /\ heap[Len(heap)].scope = Len(heap) - 1
  /\ heap[Len(heap) - 1].proto = frames[1].lex_env_p
  /\ IsImmutableBinding(Own(heap, Len(heap) - 1, "p"), "p", ObjectValue(Len(heap)))
  /\ ~ecma_op_has_binding(heap, frames[1].lex_env_p, "p")
  /\ frames[1].regs[1] = ObjectValue(Len(heap))

\* a function expression without a name has been executed
C40_WitnessAnonymous ==
  /\ op.name = "func_expr_n"
  /\ op.opdata.name_lit_idx = INVALID_VALUE
  /\ fatal = "none"
  /\ Len(frames) = 1
  /\ heap[Len(heap)].lexenv = "none"
  /\ heap[Len(heap)].class = "Function"
  /\ heap[Len(heap)].scope = frames[1].lex_env_p
  /\ frames[1].regs[1] = ObjectValue(Len(heap))

\* a named function expression has been executed in the frame of a call
C40_WitnessInner ==
  /\ op.name = "func_expr_n"
  /\ op.opdata.name_lit_idx = 0
  /\ fatal = "none"
  /\ Len(frames) = 2
  /\ heap[Len(heap)].lexenv = "none"
  /\ heap[Len(heap)].scope = Len(heap) - 1
  /\ heap[Len(heap) - 1].proto = frames[2].lex_env_p

====
